---- MODULE Spec2Model ----
(***************************************************************************)
(* absynthe: control-flow graphs (cfg/node.py, cfg/graph.py) and the       *)
(* interleaving log synthesizer (behavior.py), as a state machine.         *)
(*                                                                         *)
(* One set of variables carries several specifications:                    *)
(*   Spec      one synthesize() sequence pulled line by line               *)
(*   SpecTwo   two synthesize() sequences pulled in any interleaving       *)
(*   LiveSpec  Spec without clock and output recording, with the fairness  *)
(*             of the random successor choice                              *)
(*   SpecGraph the Graph API (addRoot, size, dumpDotFile) over graphs      *)
(*             built with UniformNode.addSuccessor                         *)
(***************************************************************************)
EXTENDS Integers, Sequences, FiniteSets, TLC

VARIABLES
    succ,           \* Node._successors of every node object
    nodeId,         \* Node._id of every node object
    graph,          \* Graph objects: _id, _numRoots, _roots, _nodeDict
    cfgList,        \* MonospaceInterleaving._cfgList (references to Graph objects)
    inclSessionID,  \* MonospaceInterleaving._inclSessionID
    gens,           \* the frames of the generators returned by synthesize()
    lines,          \* per generator: the lines it has yielded so far
    walked,         \* per generator: how many nodes its cursors have pointed at
    result,         \* outcome of the last Graph or Node API call
    policy,         \* per node object: its class, BinomialNode._p, its wrapper
    calls,          \* per node object of SpecNode: addSuccessor and delLastSuccessor calls so far
    build           \* a TreeBuilder or DAGBuilder and its generateNewGraph() call

vars == <<succ, nodeId, graph, cfgList, inclSessionID, gens, lines, walked, result,
          policy, calls, build>>

\* no graph builder was constructed
NoBuild == [pc |-> "none"]

(***************************************************************************)
(* Bounds of the model.                                                    *)
(***************************************************************************)
MaxGraphs == 2      \* addGraph calls on one synthesizer
MaxRuns == 2        \* largest numRuns passed to synthesize
MaxLines == 3       \* lines pulled from a sequence (Spec)
MaxLinesTwo == 2    \* lines pulled from each of two sequences (SpecTwo)

(***************************************************************************)
(* Python values.                                                          *)
(***************************************************************************)
None == 0                       \* the no-successor sentinel
NodeObjs == 1 .. 4              \* node objects of the synthesizer fixture
GraphObjs == 1 .. 3             \* Graph objects of the synthesizer fixture
GenA == "seqA"
GenB == "seqB"
GenIds == {GenA, GenB}

Range(s) == {s[k] : k \in 1 .. Len(s)}

\* list.pop(index) with a 0-based index
PopAt(s, idx) == [k \in 1 .. Len(s) - 1 |-> IF k <= idx THEN s[k] ELSE s[k + 1]]

\* list(range(n))
RangeList(n) == [k \in 1 .. n |-> k - 1]

(***************************************************************************)
(* Simulated time, in ticks of _fixedTimeDelta = 0.05 s.                   *)
(***************************************************************************)
FixedTimeDelta == 1             \* 0.05 s
RunGap == 50                    \* 2.5 s
InitialClock == -50             \* -2.5 s
TicksPerSecond == 20
MicrosPerTick == 50000

\* str(datetime.fromtimestamp(wallClock)): seconds and microseconds
TimeStamp(clock) == <<clock \div TicksPerSecond, (clock % TicksPerSecond) * MicrosPerTick>>

\* order of two rendered time stamps
StampLess(a, b) == a[1] < b[1] \/ (a[1] = b[1] /\ a[2] < b[2])

(***************************************************************************)
(* Node.getSuccessorAtRandom: None for a node without successors, else one *)
(* of the entries of its successor list (which may be the sentinel).  The  *)
(* nodes the synthesizer walks are LoggerNodes, which hand every           *)
(* structural call to their core node (cfg/logger_node.py).                *)
(***************************************************************************)
\* variant: the walk may end at any node
RandomSuccessorsOrEnd(n) == {None} \cup {succ[n][k] : k \in 1 .. Len(succ[n])}

RandomSuccessors(n) ==
    IF Len(succ[n]) = 0 THEN {None} ELSE {succ[n][k] : k \in 1 .. Len(succ[n])}

\* Graph.getRootAtRandom
RandomRoots(g) == {graph[g].roots[k] : k \in 1 .. Len(graph[g].roots)}

(***************************************************************************)
(* The frame of a synthesize() generator.                                  *)
(***************************************************************************)
NoFrame == [pc |-> "none", numRuns |-> 0, numGraphs |-> 0, i |-> 0,
            nextNodeOf |-> <<>>, graphsAvailable |-> <<>>, toTraverse |-> 0,
            posInGraphsAvailable |-> 0, graphIdx |-> -1, wallClock |-> 0]

\* synthesize(numRuns): the generator object exists, its body has not run
NewFrame(n) == [NoFrame EXCEPT !.pc = "new", !.numRuns = n]

\* first next(): lines 37-40
EnterBody(fr) == [fr EXCEPT !.numGraphs = Len(cfgList), !.graphIdx = -1,
                            !.wallClock = InitialClock]

\* variant: the gap leaves out the step after the last line of the run before
StartRunGapLessDelta(fr, run, rts) ==
    [fr EXCEPT !.i = run,
               !.nextNodeOf = rts,
               !.graphsAvailable = RangeList(fr.numGraphs),
               !.toTraverse = fr.numGraphs,
               !.wallClock = fr.wallClock + RunGap - FixedTimeDelta]

\* lines 42-45: pick a root per graph, every graph available, add the run gap
StartRun(fr, run, rts) ==
    [fr EXCEPT !.i = run,
               !.nextNodeOf = rts,
               !.graphsAvailable = RangeList(fr.numGraphs),
               !.toTraverse = fr.numGraphs,
               !.wallClock = fr.wallClock + RunGap]

\* the choices of line 42
RootChoices(n) ==
    {rts \in [1 .. n -> NodeObjs] : \A k \in 1 .. n : rts[k] \in RandomRoots(cfgList[k])}

\* variant: the random position is used as the graph index itself
PickGraphByPos(fr, pos) ==
    [fr EXCEPT !.posInGraphsAvailable = pos,
               !.graphIdx = pos,
               !.pc = "yield"]

\* lines 50-52: the graph at a random position of graphsAvailable
PickGraph(fr, pos) ==
    [fr EXCEPT !.posInGraphsAvailable = pos,
               !.graphIdx = fr.graphsAvailable[pos + 1],
               !.pc = "yield"]

\* the choices of line 50: randint(0, toTraverse - 1)
PosChoices(fr) == 0 .. fr.toTraverse - 1

\* variant: the tag carries the position in graphsAvailable
SessionIDByPos(fr) ==
    IF inclSessionID THEN <<"SESSION", fr.i, fr.posInGraphsAvailable>> ELSE <<>>

\* lines 55-57
SessionID(fr) ==
    IF inclSessionID THEN <<"SESSION", fr.i, fr.graphIdx>> ELSE <<>>

\* lines 54-63: the line yielded by a frame that has picked its graph
LogLine(fr) ==
    [timeStamp |-> TimeStamp(fr.wallClock),
     sessionID |-> SessionID(fr),
     graphID   |-> graph[cfgList[fr.graphIdx + 1]].id,
     node      |-> fr.nextNodeOf[fr.graphIdx + 1]]

\* variant: a graph also leaves the active set when its new cursor has no
\* successors
AdvanceSkipLeaf(fr, nextNode) ==
    LET moved == [fr EXCEPT !.wallClock = fr.wallClock + FixedTimeDelta,
                            !.nextNodeOf[fr.graphIdx + 1] = nextNode]
    IN  IF nextNode = None \/ Len(succ[nextNode]) = 0
        THEN [moved EXCEPT !.graphsAvailable =
                               PopAt(fr.graphsAvailable, fr.posInGraphsAvailable),
                           !.toTraverse = fr.toTraverse - 1]
        ELSE moved

\* variant: the new cursor is stored at the position in graphsAvailable
AdvanceOtherSlot(fr, nextNode) ==
    LET moved == [fr EXCEPT !.wallClock = fr.wallClock + FixedTimeDelta,
                            !.nextNodeOf[fr.posInGraphsAvailable + 1] = nextNode]
    IN  IF nextNode = None
        THEN [moved EXCEPT !.graphsAvailable =
                               PopAt(fr.graphsAvailable, fr.posInGraphsAvailable),
                           !.toTraverse = fr.toTraverse - 1]
        ELSE moved

\* variant: the clock is not advanced after a line
AdvanceNoTick(fr, nextNode) ==
    LET moved == [fr EXCEPT !.nextNodeOf[fr.graphIdx + 1] = nextNode]
    IN  IF nextNode = None
        THEN [moved EXCEPT !.graphsAvailable =
                               PopAt(fr.graphsAvailable, fr.posInGraphsAvailable),
                           !.toTraverse = fr.toTraverse - 1]
        ELSE moved

\* variant: a finished graph stays in the active set
AdvanceKeepActive(fr, nextNode) ==
    [fr EXCEPT !.wallClock = fr.wallClock + FixedTimeDelta,
               !.nextNodeOf[fr.graphIdx + 1] = nextNode]

\* variant: every cursor that can move takes a step
AdvanceAllCursors(fr, nextNode) ==
    LET moved == [fr EXCEPT
                    !.wallClock = fr.wallClock + FixedTimeDelta,
                    !.nextNodeOf =
                        [k \in DOMAIN fr.nextNodeOf |->
                            IF k = fr.graphIdx + 1 THEN nextNode
                            ELSE IF fr.nextNodeOf[k] = None
                                    \/ Len(succ[fr.nextNodeOf[k]]) = 0
                                    \/ succ[fr.nextNodeOf[k]][1] = None
                                 THEN fr.nextNodeOf[k]
                                 ELSE succ[fr.nextNodeOf[k]][1]]]
    IN  IF nextNode = None
        THEN [moved EXCEPT !.graphsAvailable =
                               PopAt(fr.graphsAvailable, fr.posInGraphsAvailable),
                           !.toTraverse = fr.toTraverse - 1]
        ELSE moved

\* lines 65-70: resume after the yield with the successor drawn at line 66
Advance(fr, nextNode) ==
    LET moved == [fr EXCEPT !.wallClock = fr.wallClock + FixedTimeDelta,
                            !.nextNodeOf[fr.graphIdx + 1] = nextNode]
    IN  IF nextNode = None
        THEN [moved EXCEPT !.graphsAvailable =
                               PopAt(fr.graphsAvailable, fr.posInGraphsAvailable),
                           !.toTraverse = fr.toTraverse - 1]
        ELSE moved

\* the choices of line 66
NextNodeChoices(fr) == RandomSuccessors(fr.nextNodeOf[fr.graphIdx + 1])

\* variant: the clock is an attribute of the synthesizer, seen by every
\* started generator
StoreFrameSharedClock(gs, g, fr) ==
    [h \in DOMAIN gs |->
        IF h = g THEN fr
        ELSE IF gs[h].pc \in {"none", "new"} THEN gs[h]
        ELSE [gs[h] EXCEPT !.wallClock = fr.wallClock]]

\* a generator frame after its local variables were rebound
StoreFrame(gs, g, fr) == [gs EXCEPT ![g] = fr]

(***************************************************************************)
(* The synthesizer fixture: nodes with a branch, a cycle, a self loop, a   *)
(* sentinel entry and a leaf; graphs with one root, two roots, a leaf root.*)
(* Every graph handed to the synthesizer has at least one root.            *)
(***************************************************************************)
FixtureSucc == (1 :> <<2, 3>>) @@ (2 :> <<1, 4>>) @@ (3 :> <<3, None, 4>>) @@ (4 :> <<>>)

FixtureIds == [n \in NodeObjs |-> n]

\* a SimpleLoggerNode around a UniformNode (the kwargs of LoggerNode.__init__)
UniformLogger == [class |-> "UniformNode", p |-> <<1, 2>>, wrapper |-> "SimpleLoggerNode"]

FixturePolicy == [n \in NodeObjs |-> UniformLogger]

\* no addSuccessor or delLastSuccessor call was made on the node
NoCalls == [adds |-> 0, sentinelAgain |-> 0, dels |-> 0]

FixtureGraphs ==
    (1 :> [id |-> "graph::1", numRoots |-> 1, roots |-> <<1>>, nodeDict |-> {}]) @@
    (2 :> [id |-> "graph::2", numRoots |-> 2, roots |-> <<3, 4>>, nodeDict |-> {}]) @@
    (3 :> [id |-> "graph::3", numRoots |-> 1, roots |-> <<4>>, nodeDict |-> {}])

Init ==
    /\ succ = FixtureSucc
    /\ nodeId = FixtureIds
    /\ graph = FixtureGraphs
    /\ cfgList = <<>>
    /\ inclSessionID \in BOOLEAN
    /\ gens = [g \in GenIds |-> NoFrame]
    /\ lines = [g \in GenIds |-> <<>>]
    /\ walked = [g \in GenIds |-> 0]
    /\ result = [op |-> "none"]
    /\ policy = FixturePolicy
    /\ calls = [n \in NodeObjs |-> NoCalls]
    /\ build = NoBuild

world == <<succ, nodeId, graph, result, policy, calls, build>>

\* MonospaceInterleaving.addGraph
AddGraph(gr) ==
    /\ Len(cfgList) < MaxGraphs
    /\ cfgList' = Append(cfgList, gr)
    /\ UNCHANGED <<world, inclSessionID, gens, lines, walked>>

\* MonospaceInterleaving.synthesize(numRuns): returns a generator
Synthesize(g, n) ==
    /\ gens[g].pc = "none"
    /\ gens' = StoreFrame(gens, g, NewFrame(n))
    /\ UNCHANGED <<world, cfgList, inclSessionID, lines, walked>>

\* what the consumer has seen of a yielded line: the line, and which run and
\* which cursor (index into nextNodeOf, line 62) produced it
Entry(fr) == [line |-> LogLine(fr), run |-> fr.i, src |-> fr.graphIdx]

\* the frame as kept by a specification that does not observe the clock
Kept(fr, obs) == IF obs THEN fr ELSE [fr EXCEPT !.wallClock = 0]

\* next(generator) runs up to the yield of line 63 with frame fr, its cursors
\* having been pointed at `steps` nodes; node.logInfo raises AttributeError when
\* the cursor read at line 62 is None.  The consumer stops pulling after `cap`
\* lines.  With obs = FALSE neither the output nor the clock is recorded.
Yield(g, cap, obs, fr, steps) ==
    /\ obs => Len(lines[g]) < cap
    /\ IF fr.nextNodeOf[fr.graphIdx + 1] = None
       THEN /\ gens' = StoreFrame(gens, g, Kept([fr EXCEPT !.pc = "raised"], obs))
            /\ UNCHANGED lines
       ELSE /\ gens' = StoreFrame(gens, g, Kept(fr, obs))
            /\ lines' = IF obs THEN [lines EXCEPT ![g] = Append(@, Entry(fr))] ELSE lines
    /\ walked' = IF obs THEN [walked EXCEPT ![g] = @ + steps] ELSE walked
    /\ UNCHANGED <<world, cfgList, inclSessionID>>

\* next(generator) raises StopIteration
Stop(g, obs, fr, steps) ==
    /\ gens' = StoreFrame(gens, g, Kept([fr EXCEPT !.pc = "done"], obs))
    /\ walked' = IF obs THEN [walked EXCEPT ![g] = @ + steps] ELSE walked
    /\ UNCHANGED <<world, cfgList, inclSessionID, lines>>

\* first next(): no run to make, or no graph to traverse in any run
PullEmpty(g, obs) ==
    /\ gens[g].pc = "new"
    /\ \/ gens[g].numRuns = 0
       \/ Len(cfgList) = 0
    /\ LET fr == EnterBody(gens[g])
       IN  Stop(g, obs, [fr EXCEPT !.wallClock = fr.wallClock + fr.numRuns * RunGap,
                                   !.i = IF fr.numRuns = 0 THEN 0 ELSE fr.numRuns - 1],
                0)

\* first next(): run 0 starts and yields its first line
PullFirst(g, cap, obs) ==
    /\ gens[g].pc = "new"
    /\ gens[g].numRuns > 0
    /\ Len(cfgList) > 0
    /\ LET fr == EnterBody(gens[g])
       IN  \E rts \in RootChoices(fr.numGraphs) :
             LET run == StartRun(fr, 0, rts)
             IN  \E pos \in PosChoices(run) :
                   Yield(g, cap, obs, PickGraph(run, pos), fr.numGraphs)

\* next(): the graph of the last line moves on, the run goes on
PullSameRun(g, cap, obs, nextNode) ==
    /\ gens[g].pc = "yield"
    /\ nextNode \in NextNodeChoices(gens[g])
    /\ LET fr == Advance(gens[g], nextNode)
       IN  /\ 0 < fr.toTraverse
           /\ \E pos \in PosChoices(fr) :
                Yield(g, cap, obs, PickGraph(fr, pos), IF nextNode = None THEN 0 ELSE 1)

\* next(): the last graph of the run reached its end, the next run starts
PullNextRun(g, cap, obs, nextNode) ==
    /\ gens[g].pc = "yield"
    /\ nextNode \in NextNodeChoices(gens[g])
    /\ LET fr == Advance(gens[g], nextNode)
       IN  /\ ~(0 < fr.toTraverse)
           /\ fr.i + 1 < fr.numRuns
           /\ \E rts \in RootChoices(fr.numGraphs) :
                LET run == StartRun(fr, fr.i + 1, rts)
                IN  \E pos \in PosChoices(run) :
                      Yield(g, cap, obs, PickGraph(run, pos),
                            fr.numGraphs + (IF nextNode = None THEN 0 ELSE 1))

\* next(): the last graph of the last run reached its end
PullLast(g, obs, nextNode) ==
    /\ gens[g].pc = "yield"
    /\ nextNode \in NextNodeChoices(gens[g])
    /\ LET fr == Advance(gens[g], nextNode)
       IN  /\ ~(0 < fr.toTraverse)
           /\ ~(fr.i + 1 < fr.numRuns)
           /\ Stop(g, obs, fr, IF nextNode = None THEN 0 ELSE 1)

\* next() resumes after the yield with the successor drawn at line 66
Resume(g, cap, obs, nextNode) ==
    \/ PullSameRun(g, cap, obs, nextNode)
    \/ PullNextRun(g, cap, obs, nextNode)
    \/ PullLast(g, obs, nextNode)

\* one next() call on generator g
Pull(g, cap, obs) ==
    \/ PullEmpty(g, obs)
    \/ PullFirst(g, cap, obs)
    \/ \E nextNode \in NodeObjs \cup {None} : Resume(g, cap, obs, nextNode)

Next ==
    \/ \E gr \in GraphObjs : AddGraph(gr)
    \/ \E n \in 0 .. MaxRuns : Synthesize(GenA, n)
    \/ Pull(GenA, MaxLines, TRUE)

Spec == Init /\ [][Next]_vars

\* the graphs added while two sequences are pulled: the cyclic one and the leaf
SharedPool == {1, 3}

NextTwo ==
    \/ \E gr \in SharedPool : AddGraph(gr)
    \/ \E g \in GenIds : Synthesize(g, MaxRuns)
    \/ \E g \in GenIds : Pull(g, MaxLinesTwo, TRUE)

SpecTwo == Init /\ [][NextTwo]_vars

(***************************************************************************)
(* Liveness.  The clock and the output are not recorded, which leaves the  *)
(* control flow of synthesize unchanged (no guard reads them) and the      *)
(* state space finite.  The consumer keeps pulling (WF).  random.randint   *)
(* and random.random draw each entry of a successor list with a fixed      *)
(* positive probability at every visit, so a node that is left infinitely  *)
(* often is left infinitely often through each entry; of this fairness the *)
(* specification states the part that termination needs: draws that bring  *)
(* a cursor closer to the end of its path are not avoided forever (SF).    *)
(***************************************************************************)
NextLive ==
    \/ \E gr \in GraphObjs : AddGraph(gr)
    \/ \E n \in {0, MaxRuns} : Synthesize(GenA, n)
    \/ Pull(GenA, 0, FALSE)

\* the nodes of successor map sc from which at most k draws after the first
\* can return None
RECURSIVE EndsWithin(_, _)
EndsWithin(sc, k) ==
    IF k = 0
    THEN {n \in DOMAIN sc : Len(sc[n]) = 0 \/ None \in Range(sc[n])}
    ELSE LET E == EndsWithin(sc, k - 1)
         IN  E \cup {n \in DOMAIN sc : Range(sc[n]) \cap E # {}}

FixtureEnds == [k \in 0 .. Cardinality(NodeObjs) - 1 |-> EndsWithin(FixtureSucc, k)]

\* the draws at node n that bring the cursor closer to the end of its path
DrawsTowardEnd(n) ==
    IF None \in RandomSuccessors(n)
    THEN {None}
    ELSE {t \in Range(succ[n]) : \E k \in DOMAIN FixtureEnds :
             t \in FixtureEnds[k] /\ n \notin FixtureEnds[k]}

\* the cursor of the last line is at node n and line 66 draws nextNode
Leave(g, n, nextNode) ==
    /\ gens[g].pc = "yield"
    /\ gens[g].nextNodeOf[gens[g].graphIdx + 1] = n
    /\ Resume(g, 0, FALSE, nextNode)

\* line 66 draws an entry that brings the cursor closer to the end
TowardEnd(g) ==
    \E n \in NodeObjs : \E nextNode \in DrawsTowardEnd(n) : Leave(g, n, nextNode)

LiveSpec ==
    /\ Init
    /\ [][NextLive]_vars
    /\ WF_vars(Pull(GenA, 0, FALSE))
    /\ SF_vars(TowardEnd(GenA))

(***************************************************************************)
(* Properties of the synthesizer.                                          *)
(***************************************************************************)
GraphIdxs(g) == 0 .. gens[g].numGraphs - 1

Cursor(g, gi) == gens[g].nextNodeOf[gi + 1]

\* the lines of run r that came from graph index gi, in output order
Trace(g, r, gi) ==
    LET FromThere(e) == e.run = r /\ e.src = gi
    IN  SelectSeq(lines[g], FromThere)

\* the nodes reachable from a set of nodes along successor entries
RECURSIVE Closure(_)
Closure(S) ==
    LET T == S \cup {t \in DOMAIN succ : \E n \in S : t \in Range(succ[n])}
    IN  IF T = S THEN S ELSE Closure(T)

ReachableFrom(roots) == Closure(Range(roots) \ {None})

\* from n some path leads to a node where the successor draw can return None
CanEnd(n) == \E m \in Closure({n}) : None \in RandomSuccessors(m)

PathToEndEverywhere == \A n \in NodeObjs : CanEnd(n)

\* C1: when every node has a path to a node whose successor draw can return
\* None, then under fair successor choices and a consumer that keeps pulling,
\* a sequence that was started or is in one of its runs eventually ends; it
\* ends in its last run, every run before it being over, with the cursor of
\* every graph at the sentinel.
C1_EveryRunTerminates ==
    PathToEndEverywhere =>
      /\ (gens[GenA].pc \in {"new", "yield"}) ~> (gens[GenA].pc = "done")
      /\ [](gens[GenA].pc = "done" /\ gens[GenA].numRuns > 0 =>
              /\ gens[GenA].i = gens[GenA].numRuns - 1
              /\ gens[GenA].toTraverse = 0
              /\ \A gi \in GraphIdxs(GenA) : Cursor(GenA, gi) = None)

\* a sequence of MaxRuns runs over MaxGraphs graphs, the cyclic one among them,
\* has ended
C1_Witness ==
    /\ PathToEndEverywhere
    /\ gens[GenA].pc = "done"
    /\ gens[GenA].numRuns = MaxRuns
    /\ gens[GenA].numGraphs = MaxGraphs
    /\ cfgList[1] = 1

\* the lines of run r from graph gi end at a node whose draw can return None
PathEnded(g, r, gi) ==
    LET t == Trace(g, r, gi)
    IN  /\ Len(t) > 0
        /\ None \in RandomSuccessors(t[Len(t)].line.node)

\* C2: the lines yielded are the nodes the cursors pointed at, one line per
\* node: while a run is under way all but the cursors of the other active
\* graphs have been yielded; at the end of the sequence every node has, every
\* run has for every graph a path that ends where the draw can return None,
\* and nothing is yielded when numRuns is 0 or no graph was added.
C2_LineCountIsPathLength ==
    LET fr == gens[GenA]
    IN  /\ fr.pc # "raised"
        /\ fr.pc = "yield" => Len(lines[GenA]) = walked[GenA] - (fr.toTraverse - 1)
        /\ fr.pc = "done" =>
             /\ Len(lines[GenA]) = walked[GenA]
             /\ (fr.numRuns = 0 \/ fr.numGraphs = 0) => Len(lines[GenA]) = 0
             /\ \A r \in 0 .. fr.numRuns - 1 : \A gi \in GraphIdxs(GenA) :
                  PathEnded(GenA, r, gi)

\* a sequence over two graphs has ended after MaxLines lines
C2_Witness ==
    /\ gens[GenA].pc = "done"
    /\ gens[GenA].numGraphs = 2
    /\ Len(lines[GenA]) = MaxLines
    /\ walked[GenA] = MaxLines

\* the active set is the set of graphs whose cursor is not the sentinel, and
\* the graph of the last line is one of them
ActiveMatchesCursors(g) ==
    LET fr == gens[g]
    IN  /\ fr.pc # "raised"
        /\ fr.pc = "yield" =>
             /\ Len(fr.graphsAvailable) = fr.toTraverse
             /\ \A gi \in GraphIdxs(g) :
                  gi \in Range(fr.graphsAvailable) <=> Cursor(g, gi) # None
             /\ fr.graphIdx \in Range(fr.graphsAvailable)

\* every graph has a line in every run that is over
EveryGraphEmits(g) ==
    LET fr == gens[g]
    IN  \A r \in 0 .. fr.numRuns - 1 :
          (fr.pc = "done" \/ (fr.pc = "yield" /\ r < fr.i)) =>
             \A gi \in GraphIdxs(g) : Len(Trace(g, r, gi)) > 0

\* within a run a cursor that is the sentinel stays the sentinel and its
\* graph yields no line
NoLineAfterSentinel(g) ==
    (gens[g].pc = "yield" /\ gens'[g].pc = "yield" /\ gens'[g].i = gens[g].i) =>
       \A gi \in GraphIdxs(g) :
          Cursor(g, gi) = None =>
             /\ gens'[g].nextNodeOf[gi + 1] = None
             /\ gens'[g].graphIdx # gi
             /\ Len(lines'[g]) > Len(lines[g]) => lines'[g][Len(lines'[g])].src # gi

\* C3: each line comes from a graph that is still active in the current run;
\* a graph whose cursor became the sentinel yields no further line in that
\* run; every graph yields at least one line in every run.
C3_OnlyActiveGraphsEmit ==
    /\ [](ActiveMatchesCursors(GenA) /\ EveryGraphEmits(GenA))
    /\ [][NoLineAfterSentinel(GenA)]_vars

\* the first graph has finished and the second one, now at position 0 of the
\* active set, has yielded a line
C3_Witness ==
    /\ gens[GenA].pc = "yield"
    /\ gens[GenA].numGraphs = 2
    /\ gens[GenA].toTraverse = 1
    /\ gens[GenA].graphIdx = 1
    /\ gens[GenA].posInGraphsAvailable = 0
    /\ Cursor(GenA, 0) = None

\* the lines of one graph in one run start at a root of that graph and each
\* next one is at a successor entry of the one before
FollowsPath(g, r, gi) ==
    LET t == Trace(g, r, gi)
    IN  /\ Len(t) > 0 => t[1].line.node \in RandomRoots(cfgList[gi + 1])
        /\ \A k \in 1 .. Len(t) - 1 :
             t[k + 1].line.node \in Range(succ[t[k].line.node]) \ {None}

\* the cursor of the graph of the last line is the node of that line; every
\* other cursor is one step ahead of the last line of its graph
CursorAhead(g, gi) ==
    LET t == Trace(g, gens[g].i, gi)
    IN  IF gi = gens[g].graphIdx
        THEN Len(t) > 0 /\ Cursor(g, gi) = t[Len(t)].line.node
        ELSE IF Len(t) = 0
             THEN Cursor(g, gi) \in RandomRoots(cfgList[gi + 1])
             ELSE Cursor(g, gi) \in RandomSuccessors(t[Len(t)].line.node)

\* C4: within a run the lines of a graph follow one path of that graph: the
\* first is a root, each next one a successor of the one before; no node of
\* the path is skipped or repeated, nothing is reordered.
C4_LinesFollowPath ==
    /\ \A r \in 0 .. gens[GenA].i : \A gi \in GraphIdxs(GenA) : FollowsPath(GenA, r, gi)
    /\ gens[GenA].pc = "yield" => \A gi \in GraphIdxs(GenA) : CursorAhead(GenA, gi)

\* one graph has yielded 1, 2, 1: a path through the cycle
C4_Witness ==
    /\ Len(lines[GenA]) = 3
    /\ \A k \in 1 .. 3 : lines[GenA][k].src = lines[GenA][1].src /\ lines[GenA][k].run = 0
    /\ lines[GenA][1].line.node = 1
    /\ lines[GenA][2].line.node = 2
    /\ lines[GenA][3].line.node = 1

\* C5: time stamps strictly increase from each line to the next, within a run
\* and across runs, and the lines of a run all come before those of the next.
C5_TimeStampsIncrease ==
    \A j, k \in 1 .. Len(lines[GenA]) :
       j < k =>
          /\ StampLess(lines[GenA][j].line.timeStamp, lines[GenA][k].line.timeStamp)
          /\ lines[GenA][j].run <= lines[GenA][k].run

\* lines of run 0 and of run 1 have been yielded
C5_Witness ==
    /\ Len(lines[GenA]) = MaxLines
    /\ lines[GenA][1].run = 0
    /\ lines[GenA][MaxLines].run = 1

\* C6: with session tags enabled a line carries SESSION, the index of the run
\* and the index of its graph in the synthesizer's graph list, and so names
\* one (run, graph) pair; with tags disabled it carries none.  The graph of
\* that index is the one whose ID the line carries and whose node it logs.
C6_SessionTagNamesRunAndGraph ==
    \A k \in 1 .. Len(lines[GenA]) :
       LET e == lines[GenA][k]
       IN  /\ e.run \in 0 .. gens[GenA].numRuns - 1
           /\ e.src \in GraphIdxs(GenA)
           /\ e.line.sessionID = IF inclSessionID THEN <<"SESSION", e.run, e.src>> ELSE <<>>
           /\ e.line.graphID = graph[cfgList[e.src + 1]].id
           /\ e.line.node \in ReachableFrom(graph[cfgList[e.src + 1]].roots)

\* a tagged line of the graph of index 1, picked at position 0 of the active set
C6_Witness ==
    /\ inclSessionID
    /\ gens[GenA].pc = "yield"
    /\ gens[GenA].graphIdx = 1
    /\ gens[GenA].posInGraphsAvailable = 0
    /\ Len(lines[GenA]) > 0
    /\ lines[GenA][Len(lines[GenA])].line.sessionID = <<"SESSION", 0, 1>>

\* a next() on one sequence leaves the frame and the output of the other alone
OthersUntouched ==
    \A g \in GenIds :
       (gens'[g] # gens[g] \/ lines'[g] # lines[g]) =>
          \A h \in GenIds \ {g} : gens'[h] = gens[h] /\ lines'[h] = lines[h]

\* no step of the synthesizer writes to a node or a graph
GraphsUntouched ==
    succ' = succ /\ nodeId' = nodeId /\ graph' = graph /\ policy' = policy

\* addGraph appends, and changes neither a frame nor an output
AddGraphInvisible ==
    cfgList' # cfgList =>
       /\ gens' = gens
       /\ lines' = lines
       /\ Len(cfgList') = Len(cfgList) + 1
       /\ SubSeq(cfgList', 1, Len(cfgList)) = cfgList

\* the number of graphs and of runs of a started sequence is fixed
SnapshotKept ==
    \A g \in GenIds :
       gens[g].pc = "yield" =>
          /\ gens'[g].numGraphs = gens[g].numGraphs
          /\ gens'[g].numRuns = gens[g].numRuns

\* a sequence starts at run 0 and clock 0 and only traverses the graphs that
\* were there at its first next()
OwnStart(g) ==
    /\ Len(lines[g]) > 0 =>
          /\ lines[g][1].run = 0
          /\ lines[g][1].line.timeStamp = TimeStamp(0)
    /\ gens[g].numGraphs <= Len(cfgList)
    /\ \A k \in 1 .. Len(lines[g]) : lines[g][k].src \in GraphIdxs(g)

\* C7: sequences from separate synthesize() calls are independent: each starts
\* at run 0 with its own clock, cursors and active set, and a next() on one
\* changes nothing of the other; addGraph while a sequence is suspended
\* changes neither the number of graphs it traverses nor its output; no step
\* modifies a graph or a node.
C7_SequencesIndependent ==
    /\ [](\A g \in GenIds : OwnStart(g))
    /\ [][OthersUntouched /\ GraphsUntouched /\ AddGraphInvisible /\ SnapshotKept]_vars

\* both sequences have yielded lines, the second one over a graph that was
\* added after the first one had started
C7_Witness ==
    /\ Len(lines[GenA]) = MaxLinesTwo
    /\ Len(lines[GenB]) > 0
    /\ gens[GenA].numGraphs = 1
    /\ gens[GenB].numGraphs = 2
    /\ gens[GenA].wallClock # gens[GenB].wallClock


(***************************************************************************)
(* Node, UniformNode, BinomialNode (cfg/node.py) and the structural calls  *)
(* of LoggerNode (cfg/logger_node.py), which go to the core node.          *)
(***************************************************************************)
MaxSucc == 3        \* longest successor list of the node of SpecNode
MaxCalls == 4       \* addSuccessor and delLastSuccessor calls on that node

TheNode == 1                    \* the node object of SpecNode
SuccValues == {None, 2, 3}      \* what is passed to addSuccessor
PDen == 2                       \* _p is PNum / PDen; "0.5" is <<1, 2>>
NaN == -1                       \* what binom.cdf returns for a p outside [0, 1]

\* variant: only 0 .. len - 1 are accepted
PyGetItemStrict(list, index) ==
    IF 0 <= index /\ index < Len(list)
    THEN [raised |-> FALSE, value |-> list[index + 1]]
    ELSE [raised |-> TRUE, value |-> None]

\* self._successors[index]: Python accepts -len .. len - 1, IndexError otherwise
PyGetItem(list, index) ==
    IF 0 <= index /\ index < Len(list)
    THEN [raised |-> FALSE, value |-> list[index + 1]]
    ELSE IF -Len(list) <= index /\ index < 0
         THEN [raised |-> FALSE, value |-> list[Len(list) + index + 1]]
         ELSE [raised |-> TRUE, value |-> None]

\* variant: the first entry is removed
PyPopFirst(list) ==
    IF Len(list) = 0
    THEN [raised |-> TRUE, list |-> list, value |-> None]
    ELSE [raised |-> FALSE, list |-> SubSeq(list, 2, Len(list)), value |-> list[1]]

\* variant: an empty list gives None instead of an error
PyPopQuiet(list) ==
    IF Len(list) = 0
    THEN [raised |-> FALSE, list |-> list, value |-> None]
    ELSE [raised |-> FALSE, list |-> SubSeq(list, 1, Len(list) - 1),
          value |-> list[Len(list)]]

\* self._successors.pop(): IndexError on an empty list
PyPop(list) ==
    IF Len(list) = 0
    THEN [raised |-> TRUE, list |-> list, value |-> None]
    ELSE [raised |-> FALSE, list |-> SubSeq(list, 1, Len(list) - 1),
          value |-> list[Len(list)]]

\* UniformNode.addSuccessor: a second sentinel is not appended
UniformAddSuccessor(list, successor) ==
    IF successor = None /\ None \in Range(list) THEN list ELSE Append(list, successor)

\* BinomialNode.addSuccessor: the search for a sentinel has no effect, the
\* successor is appended in every case
BinomialAddSuccessor(list, successor) == Append(list, successor)

\* addSuccessor of the class of the (core) node
NodeAddSuccessor(pol, list, successor) ==
    IF pol.class = "UniformNode"
    THEN UniformAddSuccessor(list, successor)
    ELSE BinomialAddSuccessor(list, successor)

RECURSIVE Pow(_, _)
Pow(a, e) == IF e = 0 THEN 1 ELSE a * Pow(a, e - 1)

RECURSIVE Binomial(_, _)
Binomial(m, i) ==
    IF i = 0 \/ i = m THEN 1 ELSE Binomial(m - 1, i - 1) + Binomial(m - 1, i)

\* binom.pmf(i, m, pnum / PDen) in units of 1 / PDen^m, for a p in [0, 1]
PmfNum(i, m, pnum) == Binomial(m, i) * Pow(pnum, i) * Pow(PDen - pnum, m - i)

\* binom.cdf(k, m, pnum / PDen) in units of 1 / PDen^m; NaN for a p outside [0, 1]
RECURSIVE CdfSum(_, _, _)
CdfSum(k, m, pnum) ==
    IF k < 0 THEN 0 ELSE PmfNum(k, m, pnum) + CdfSum(k - 1, m, pnum)

\* variant: the probability of k alone, not the cumulative one
BinomPmfOnly(k, m, pnum) ==
    IF pnum < 0 \/ pnum > PDen THEN NaN ELSE PmfNum(k, m, pnum)

BinomCdf(k, m, pnum) ==
    IF pnum < 0 \/ pnum > PDen THEN NaN ELSE CdfSum(k, m, pnum)

\* random(): the draws j / (4 * PDen^m) of [0, 1); the odd ones lie strictly
\* between the values binom.cdf can take, the same number in every interval
\* of the same width
Draws(m) == 0 .. 4 * Pow(PDen, m) - 1

\* p <= binom.cdf(...) for the draw j; every comparison with NaN is false
DrawLeq(j, cdf) == cdf # NaN /\ j <= 4 * cdf

\* the loop of lines 247-249 from idx on: the index returned at, or -1 when the
\* loop ends without a return
RECURSIVE BinomialIndex(_, _, _, _)
BinomialIndex(idx, numSuccessors, pnum, j) ==
    IF idx >= numSuccessors
    THEN -1
    ELSE IF DrawLeq(j, BinomCdf(idx, numSuccessors - 1, pnum))
         THEN idx
         ELSE BinomialIndex(idx + 1, numSuccessors, pnum, j)

\* BinomialNode.getSuccessorAtRandom with the draw j; a call that ends without
\* a return statement returns None
BinomialAtRandom(list, pnum, j) ==
    LET idx == BinomialIndex(0, Len(list), pnum, j)
    IN  IF Len(list) = 0 \/ idx = -1
        THEN [value |-> None, index |-> -1]
        ELSE [value |-> list[idx + 1], index |-> idx]

\* variant: the draw 0 is taken for the last position
UniformAtRandomSkipFirst(list, randomIndex) ==
    IF Len(list) = 0
    THEN [value |-> None, index |-> -1]
    ELSE IF randomIndex = 0
         THEN [value |-> list[Len(list)], index |-> Len(list) - 1]
         ELSE [value |-> list[randomIndex + 1], index |-> randomIndex]

\* UniformNode.getSuccessorAtRandom with randint(0, n - 1) = randomIndex
UniformAtRandom(list, randomIndex) ==
    IF Len(list) = 0
    THEN [value |-> None, index |-> -1]
    ELSE [value |-> list[randomIndex + 1], index |-> randomIndex]

\* the classes, parameters and wrappers of the node of SpecNode
NodePolicies ==
    {[class |-> "UniformNode", p |-> <<1, PDen>>, wrapper |-> w] :
        w \in {"none", "SimpleLoggerNode"}}
    \cup {[class |-> "BinomialNode", p |-> <<pnum, PDen>>, wrapper |-> "none"] :
        pnum \in 0 .. PDen + 1}
    \cup {[class |-> "BinomialNode", p |-> <<1, PDen>>, wrapper |-> "SimpleLoggerNode"]}

InitNode ==
    /\ succ = (TheNode :> <<>>)
    /\ nodeId = (TheNode :> TheNode)
    /\ graph = <<>>
    /\ cfgList = <<>>
    /\ inclSessionID = FALSE
    /\ gens = [g \in GenIds |-> NoFrame]
    /\ lines = [g \in GenIds |-> <<>>]
    /\ walked = [g \in GenIds |-> 0]
    /\ result = [op |-> "none"]
    /\ policy \in [{TheNode} -> NodePolicies]
    /\ calls = (TheNode :> NoCalls)
    /\ build = NoBuild

others == <<nodeId, graph, cfgList, inclSessionID, gens, lines, walked, policy, build>>

NumCalls(n) == calls[n].adds + calls[n].dels

\* node.addSuccessor(successor)
CallAddSuccessor(n, successor) ==
    /\ NumCalls(n) < MaxCalls
    /\ Len(succ[n]) < MaxSucc
    /\ succ' = [succ EXCEPT ![n] = NodeAddSuccessor(policy[n], @, successor)]
    /\ calls' = [calls EXCEPT
                   ![n].adds = @ + 1,
                   ![n].sentinelAgain =
                       IF successor = None /\ None \in Range(succ[n]) THEN @ + 1 ELSE @]
    /\ result' = [op |-> "addSuccessor", raised |-> FALSE, arg |-> successor]
    /\ UNCHANGED others

\* node.delLastSuccessor(), which is self._successors.pop() in both classes
CallDelLastSuccessor(n) ==
    LET call == PyPop(succ[n])
    IN  /\ call.raised \/ NumCalls(n) < MaxCalls
        /\ succ' = [succ EXCEPT ![n] = call.list]
        /\ calls' = IF call.raised THEN calls ELSE [calls EXCEPT ![n].dels = @ + 1]
        /\ result' = [op |-> "delLastSuccessor", raised |-> call.raised,
                      value |-> call.value]
        /\ UNCHANGED others

\* node.getSuccessorAt(index)
CallGetSuccessorAt(n, index) ==
    LET call == PyGetItem(succ[n], index)
    IN  /\ result' = [op |-> "getSuccessorAt", raised |-> call.raised,
                      value |-> call.value, arg |-> index]
        /\ UNCHANGED <<succ, calls, others>>

\* node.getNumSuccessors()
CallGetNumSuccessors(n) ==
    /\ result' = [op |-> "getNumSuccessors", raised |-> FALSE, value |-> Len(succ[n])]
    /\ UNCHANGED <<succ, calls, others>>

\* node.getSuccessorAtRandom() of a UniformNode
CallUniformAtRandom(n) ==
    /\ policy[n].class = "UniformNode"
    /\ \E randomIndex \in 0 .. (IF Len(succ[n]) = 0 THEN 0 ELSE Len(succ[n]) - 1) :
         LET call == UniformAtRandom(succ[n], randomIndex)
         IN  result' = [op |-> "getSuccessorAtRandom", raised |-> FALSE,
                        value |-> call.value, index |-> call.index, draw |-> randomIndex]
    /\ UNCHANGED <<succ, calls, others>>

\* node.getSuccessorAtRandom() of a BinomialNode
CallBinomialAtRandom(n) ==
    /\ policy[n].class = "BinomialNode"
    /\ \E j \in Draws(IF Len(succ[n]) = 0 THEN 0 ELSE Len(succ[n]) - 1) :
         LET call == BinomialAtRandom(succ[n], policy[n].p[1], j)
         IN  result' = [op |-> "getSuccessorAtRandom", raised |-> FALSE,
                        value |-> call.value, index |-> call.index, draw |-> j]
    /\ UNCHANGED <<succ, calls, others>>

NextNode ==
    \/ \E successor \in SuccValues : CallAddSuccessor(TheNode, successor)
    \/ CallDelLastSuccessor(TheNode)
    \/ \E index \in -(MaxSucc + 1) .. MaxSucc : CallGetSuccessorAt(TheNode, index)
    \/ CallGetNumSuccessors(TheNode)
    \/ CallUniformAtRandom(TheNode)
    \/ CallBinomialAtRandom(TheNode)

SpecNode == InitNode /\ [][NextNode]_vars

(***************************************************************************)
(* Properties of the node operations, over SpecNode.                       *)
(***************************************************************************)
TheList == succ[TheNode]
ThePolicy == policy[TheNode]
SentinelCount(list) == Cardinality({k \in 1 .. Len(list) : list[k] = None})

\* the step is a call of the named operation on the node
AddStep == result'.op = "addSuccessor" /\ calls'[TheNode].adds = calls[TheNode].adds + 1
DelStep == result'.op = "delLastSuccessor"

SentinelAddIgnored ==
    (AddStep /\ result'.arg = None /\ None \in Range(TheList)) => succ' = succ

\* C11: under both policies the successor list holds the end-of-graph
\* sentinel at most once, and addSuccessor(sentinel) on a node that has one
\* leaves the list unchanged.
C11_AtMostOneSentinel ==
    /\ [](SentinelCount(TheList) <= 1)
    /\ [][SentinelAddIgnored]_vars

\* what does hold: the uniform policy keeps the sentinel single
UniformAtMostOneSentinel ==
    ThePolicy.class = "UniformNode" => SentinelCount(TheList) <= 1

\* C12: the number of successors is the number of addSuccessor calls, a
\* repeated sentinel not counted, minus the number of successful
\* delLastSuccessor calls, and getNumSuccessors() returns it.
C12_CountIsAddsMinusDels ==
    LET c == calls[TheNode]
    IN  /\ Len(TheList) = c.adds - c.sentinelAgain - c.dels
        /\ result.op = "getNumSuccessors" =>
               result.value = c.adds - c.sentinelAgain - c.dels

\* what does hold: the count is exact under the uniform policy, and under
\* both policies as long as no sentinel was added twice
CountWithoutRepeatedSentinel ==
    LET c == calls[TheNode]
    IN  (ThePolicy.class = "UniformNode" \/ c.sentinelAgain = 0) =>
            Len(TheList) = c.adds - c.sentinelAgain - c.dels

AddAppends ==
    AddStep => \/ succ' = succ
               \/ succ'[TheNode] = Append(TheList, result'.arg)

DelRemovesLast ==
    (DelStep /\ Len(TheList) > 0) =>
        /\ ~result'.raised
        /\ result'.value = TheList[Len(TheList)]
        /\ Len(succ'[TheNode]) = Len(TheList) - 1
        /\ \A k \in 1 .. Len(TheList) - 1 : succ'[TheNode][k] = TheList[k]

\* C13: addSuccessor adds at the end of the list, and delLastSuccessor on a
\* node with successors returns the last one (the most recently added that is
\* still there), takes it off, and leaves the others and their order alone.
C13_DelLastIsLifo == [][AddAppends /\ DelRemovesLast]_vars

\* a successor was taken off a list of several, the older ones were left
C13_Witness ==
    /\ result.op = "delLastSuccessor"
    /\ ~result.raised
    /\ result.value = 3
    /\ TheList = <<2, None>>

DelOnEmptyFails ==
    (DelStep /\ Len(TheList) = 0) =>
        /\ result'.raised
        /\ succ' = succ
        /\ calls' = calls
        /\ policy' = policy

\* C14: delLastSuccessor on a node without successors raises, and leaves the
\* node as it was, under both policies and through the logger wrapper.
C14_DelOnEmptyRaises == [][DelOnEmptyFails]_vars

\* the call was refused on an emptied binomial node behind the wrapper
C14_Witness ==
    /\ result.op = "delLastSuccessor"
    /\ result.raised
    /\ TheList = <<>>
    /\ ThePolicy.class = "BinomialNode"
    /\ ThePolicy.wrapper = "SimpleLoggerNode"
    /\ calls[TheNode].dels > 0

GetAtLeavesList == result'.op = "getSuccessorAt" => succ' = succ

\* C15 as stated: getSuccessorAt(i) returns the successor at position i for
\* 0 <= i < getNumSuccessors() and raises for every other index, and the
\* list is left unchanged.
C15_OnlyPositionsAccepted ==
    /\ [](result.op = "getSuccessorAt" =>
            IF 0 <= result.arg /\ result.arg < Len(TheList)
            THEN ~result.raised /\ result.value = TheList[result.arg + 1]
            ELSE result.raised)
    /\ [][GetAtLeavesList]_vars

\* C15, amended: getSuccessorAt(i) returns the successor at position i for
\* 0 <= i < n, the successor at position n + i for -n <= i < 0, and raises
\* for every other index; the list is left unchanged.
C15_PositionsFromEitherEnd ==
    /\ [](result.op = "getSuccessorAt" =>
            LET n == Len(TheList)
                i == result.arg
            IN  IF 0 <= i /\ i < n
                THEN ~result.raised /\ result.value = TheList[i + 1]
                ELSE IF -n <= i /\ i < 0
                     THEN ~result.raised /\ result.value = TheList[n + i + 1]
                     ELSE result.raised)
    /\ [][GetAtLeavesList]_vars

\* index -1 gave the last of several successors
C15_Witness ==
    /\ result.op = "getSuccessorAt"
    /\ result.arg = -1
    /\ ~result.raised
    /\ Len(TheList) = 3
    /\ result.value = TheList[3]
    /\ result.value # TheList[1]

AtRandomLeavesNode ==
    result'.op = "getSuccessorAtRandom" =>
        /\ succ' = succ
        /\ calls' = calls
        /\ policy' = policy
        /\ nodeId' = nodeId

\* C16: getSuccessorAtRandom returns the sentinel on a node without
\* successors, an entry of the successor list otherwise, under both
\* policies, and changes nothing of the node.
C16_AtRandomReturnsSuccessor ==
    /\ [](result.op = "getSuccessorAtRandom" =>
            IF Len(TheList) = 0
            THEN result.value = None
            ELSE result.value \in Range(TheList))
    /\ [][AtRandomLeavesNode]_vars

ValidP == 0 <= ThePolicy.p[1] /\ ThePolicy.p[1] <= PDen

\* what does hold: the same for every node whose p lies in [0, 1]
AtRandomReturnsSuccessorValidP ==
    (result.op = "getSuccessorAtRandom" /\ ValidP) =>
        IF Len(TheList) = 0
        THEN result.value = None
        ELSE /\ result.index \in 0 .. Len(TheList) - 1
             /\ result.value = TheList[result.index + 1]

\* C25: a binomial node whose p lies outside [0, 1] is refused at
\* construction, so that every binomial node that exists, and every one
\* that is asked for a random successor, has a p in [0, 1].
C25_InvalidPRefused ==
    ThePolicy.class = "BinomialNode" => ValidP

\* the draws strictly inside (0, 1) and off every value of the CDF
InnerDraws(m) == {j \in Draws(m) : j % 2 = 1}

\* C17: a binomial node with n >= 1 successors and p in [0, 1] returns, for
\* the draw u, the successor at the first position k with u <= CDF(k; n-1, p);
\* some position is found for every draw, and the share of the draws that
\* select k is pmf(k, n-1, p): 1/4, 1/2, 1/4 for three successors and p = 1/2.
C17_BinomialSelectsFirstCdf ==
    (/\ result.op = "getSuccessorAtRandom"
     /\ ThePolicy.class = "BinomialNode"
     /\ ValidP
     /\ Len(TheList) >= 1) =>
        LET n == Len(TheList)
            m == n - 1
            pnum == ThePolicy.p[1]
            k == result.index
        IN  /\ k \in 0 .. m
            /\ result.value = TheList[k + 1]
            /\ result.draw <= 4 * CdfSum(k, m, pnum)
            /\ \A i \in 0 .. k - 1 : result.draw > 4 * CdfSum(i, m, pnum)
            /\ \A i \in 0 .. m :
                 Cardinality({j \in InnerDraws(m) :
                                BinomialAtRandom(TheList, pnum, j).index = i})
                   * Pow(PDen, m)
                 = Cardinality(InnerDraws(m)) * Binomial(m, i)
                     * Pow(pnum, i) * Pow(PDen - pnum, m - i)
            /\ (n = 3 /\ pnum = 1 /\ PDen = 2) =>
                 /\ Cardinality({j \in InnerDraws(m) :
                        BinomialAtRandom(TheList, pnum, j).index = 0}) * 4
                      = Cardinality(InnerDraws(m))
                 /\ Cardinality({j \in InnerDraws(m) :
                        BinomialAtRandom(TheList, pnum, j).index = 1}) * 2
                      = Cardinality(InnerDraws(m))
                 /\ Cardinality({j \in InnerDraws(m) :
                        BinomialAtRandom(TheList, pnum, j).index = 2}) * 4
                      = Cardinality(InnerDraws(m))

\* three successors, p = 1/2, and a draw between CDF(0) and CDF(1)
C17_Witness ==
    /\ result.op = "getSuccessorAtRandom"
    /\ ThePolicy.class = "BinomialNode"
    /\ ThePolicy.p = <<1, 2>>
    /\ Len(TheList) = 3
    /\ result.index = 1
    /\ result.draw > 4 * CdfSum(0, 2, 1)

MaxEdges == 2       \* addSuccessor calls that append, over all nodes
MaxRoots == 2       \* largest capacity (numRoots) of the graph

GraphNodes == {1, 2}            \* the node objects of SpecGraph
TheGraph == 1                   \* the Graph object of SpecGraph

\* variant: the capacity test lets one root too many in
GraphAddRootOneMore(gr, root) ==
    IF Len(gr.roots) > gr.numRoots
    THEN [graph |-> gr, raised |-> TRUE]
    ELSE [graph |-> [gr EXCEPT !.roots = Append(gr.roots, root)], raised |-> FALSE]

\* Graph.addRoot: the graph afterwards, and whether IndexError was raised
GraphAddRoot(gr, root) ==
    IF Len(gr.roots) = gr.numRoots
    THEN [graph |-> gr, raised |-> TRUE]
    ELSE [graph |-> [gr EXCEPT !.roots = Append(gr.roots, root)], raised |-> FALSE]

\* Graph._bfsAndCount(node) with self._nodeDict = seen: the count returned,
\* the dict afterwards, and whether None.getID() raised AttributeError
RECURSIVE BfsAndCount(_, _), CountSuccessors(_, _, _, _)
BfsAndCount(node, seen) ==
    IF node = None
    THEN [count |-> 0, seen |-> seen, raised |-> TRUE]
    ELSE IF nodeId[node] \in seen
         THEN [count |-> 0, seen |-> seen, raised |-> FALSE]
         ELSE CountSuccessors(node, 1, 1, seen \cup {nodeId[node]})

\* the loop of lines 104-105, from the i-th successor on
CountSuccessors(node, i, count, seen) ==
    IF i > Len(succ[node])
    THEN [count |-> count, seen |-> seen, raised |-> FALSE]
    ELSE LET sub == BfsAndCount(succ[node][i], seen)
         IN  IF sub.raised
             THEN [count |-> count, seen |-> sub.seen, raised |-> TRUE]
             ELSE CountSuccessors(node, i + 1, count + sub.count, sub.seen)

\* the loop of lines 117-119 of Graph.size, from the k-th root on
RECURSIVE SizeFrom(_, _, _, _)
SizeFrom(roots, k, size, seen) ==
    IF k > Len(roots)
    THEN [count |-> size, seen |-> seen, raised |-> FALSE]
    ELSE IF roots[k] = None
         THEN SizeFrom(roots, k + 1, size, seen)
         ELSE LET sub == BfsAndCount(roots[k], seen)
              IN  IF sub.raised
                  THEN [count |-> size, seen |-> sub.seen, raised |-> TRUE]
                  ELSE SizeFrom(roots, k + 1, size + sub.count, sub.seen)

\* Graph.size: self._nodeDict is renewed at line 116
GraphSize(gr) == SizeFrom(gr.roots, 1, 0, {})

\* Graph._bfsAndAdd(node, transitionList) with self._nodeDict = seen
RECURSIVE BfsAndAdd(_, _, _), AddSuccessors(_, _, _, _)
BfsAndAdd(node, seen, transitionList) ==
    IF nodeId[node] \in seen
    THEN [list |-> transitionList, seen |-> seen, raised |-> FALSE]
    ELSE AddSuccessors(node, 1, seen \cup {nodeId[node]}, transitionList)

\* the loop of lines 131-135, from the i-th successor on; succNode.getID()
\* raises AttributeError for the sentinel
AddSuccessors(node, i, seen, transitionList) ==
    IF i > Len(succ[node])
    THEN [list |-> transitionList, seen |-> seen, raised |-> FALSE]
    ELSE LET succNode == succ[node][i]
         IN  IF succNode = None
             THEN [list |-> transitionList, seen |-> seen, raised |-> TRUE]
             ELSE LET sub == BfsAndAdd(succNode, seen,
                                       Append(transitionList, <<nodeId[node], nodeId[succNode]>>))
                  IN  IF sub.raised
                      THEN sub
                      ELSE AddSuccessors(node, i + 1, sub.seen, sub.list)

\* the loop of lines 148-150 of Graph.dumpDotFile, from the k-th root on
RECURSIVE DumpFrom(_, _, _, _)
DumpFrom(roots, k, seen, transitionList) ==
    IF k > Len(roots)
    THEN [list |-> transitionList, seen |-> seen, raised |-> FALSE]
    ELSE IF roots[k] = None
         THEN DumpFrom(roots, k + 1, seen, transitionList)
         ELSE LET sub == BfsAndAdd(roots[k], seen, transitionList)
              IN  IF sub.raised THEN sub ELSE DumpFrom(roots, k + 1, sub.seen, sub.list)

\* lines 152-166: the text written to fp, one element per line
DotText(id, transitionList) ==
    <<[kind |-> "digraph", id |-> id]>>
    \o [k \in 1 .. Len(transitionList) |->
          [kind |-> "edge", from |-> transitionList[k][1], to |-> transitionList[k][2]]]
    \o <<[kind |-> "close"]>>

\* Graph.dumpDotFile: the text written, or nothing when the traversal raised
GraphDump(gr) ==
    LET walk == DumpFrom(gr.roots, 1, {}, <<>>)
    IN  [text |-> IF walk.raised THEN <<>> ELSE DotText(gr.id, walk.list),
         seen |-> walk.seen, raised |-> walk.raised]

NumEdges == Len(succ[1]) + Len(succ[2])

\* node IDs: pairwise distinct, or node 2 carrying the ID of node 1
IdChoices == {[n \in GraphNodes |-> n], [n \in GraphNodes |-> IF n = 2 THEN 1 ELSE n]}

InitGraph ==
    /\ succ = [n \in GraphNodes |-> <<>>]
    /\ nodeId \in IdChoices
    /\ \E cap \in 0 .. MaxRoots :
         graph = (TheGraph :> [id |-> "TestGraph", numRoots |-> cap, roots |-> <<>>,
                               nodeDict |-> {}])
    /\ cfgList = <<>>
    /\ inclSessionID = FALSE
    /\ gens = [g \in GenIds |-> NoFrame]
    /\ lines = [g \in GenIds |-> <<>>]
    /\ walked = [g \in GenIds |-> 0]
    /\ result = [op |-> "none"]
    /\ policy = [n \in GraphNodes |-> [UniformLogger EXCEPT !.wrapper = "none"]]
    /\ calls = [n \in GraphNodes |-> NoCalls]
    /\ build = NoBuild

synth == <<cfgList, inclSessionID, gens, lines, walked, build>>

\* node.addSuccessor(successor) on a UniformNode
AddSuccessor(n, successor) ==
    /\ NumEdges < MaxEdges
    /\ succ' = [succ EXCEPT ![n] = UniformAddSuccessor(@, successor)]
    /\ result' = [op |-> "addSuccessor"]
    /\ UNCHANGED <<nodeId, graph, synth, policy, calls>>

\* graph.addRoot(root)
AddRoot(root) ==
    LET call == GraphAddRoot(graph[TheGraph], root)
    IN  /\ graph' = [graph EXCEPT ![TheGraph] = call.graph]
        /\ result' = [op |-> "addRoot", raised |-> call.raised]
        /\ UNCHANGED <<succ, nodeId, synth, policy, calls>>

\* graph.size()
Size ==
    LET call == GraphSize(graph[TheGraph])
    IN  /\ graph' = [graph EXCEPT ![TheGraph].nodeDict = call.seen]
        /\ result' = [op |-> "size", raised |-> call.raised, value |-> call.count]
        /\ UNCHANGED <<succ, nodeId, synth, policy, calls>>

\* graph.dumpDotFile(fp)
DumpDotFile ==
    LET call == GraphDump(graph[TheGraph])
    IN  /\ graph' = [graph EXCEPT ![TheGraph].nodeDict = call.seen]
        /\ result' = [op |-> "dumpDotFile", raised |-> call.raised, text |-> call.text]
        /\ UNCHANGED <<succ, nodeId, synth, policy, calls>>

NextGraph ==
    \/ \E n \in GraphNodes, successor \in GraphNodes \cup {None} : AddSuccessor(n, successor)
    \/ \E root \in GraphNodes : AddRoot(root)
    \/ Size
    \/ DumpDotFile

SpecGraph == InitGraph /\ [][NextGraph]_vars

(***************************************************************************)
(* Properties of Graph.                                                    *)
(***************************************************************************)
\* the nodes reachable from the roots of the graph
GraphReach == ReachableFrom(graph[TheGraph].roots)

DistinctIds(S) == \A a, b \in S : nodeId[a] = nodeId[b] => a = b

\* some reachable node has the sentinel in its successor list
SentinelReachable == \E n \in GraphReach : None \in Range(succ[n])

\* size() returned normally, 0 for a graph without roots and the number of
\* reachable nodes when their IDs are pairwise distinct
SizeCountsReachable ==
    /\ Len(graph[TheGraph].roots) = 0 => ~result.raised /\ result.value = 0
    /\ DistinctIds(GraphReach) =>
          ~result.raised /\ result.value = Cardinality(GraphReach)

\* C8: size() is 0 for a graph without roots; for a graph whose reachable
\* nodes have pairwise distinct IDs, cycles and shared nodes included, it
\* terminates and returns the number of nodes reachable from the roots; a
\* second call returns the same value.
C8_SizeCountsReachable ==
    /\ [](result.op = "size" => SizeCountsReachable)
    /\ [][result.op = "size" /\ result'.op = "size" => result' = result]_vars

\* what the code does hold to: C8 on graphs without a reachable sentinel
\* entry, and AttributeError on all others
SizeWithoutSentinel ==
    (result.op = "size" /\ DistinctIds(GraphReach)) =>
       IF SentinelReachable THEN result.raised ELSE SizeCountsReachable

\* the number of elements of a sequence that equal x
CountIn(seq, x) == Cardinality({k \in 1 .. Len(seq) : seq[k] = x})

\* the text is the digraph line, then one line per successor entry of every
\* reachable node, then the closing line
DotTextListsEdgesOnce(text) ==
    /\ Len(text) >= 2
    /\ text[1] = [kind |-> "digraph", id |-> graph[TheGraph].id]
    /\ text[Len(text)] = [kind |-> "close"]
    /\ \A k \in 2 .. Len(text) - 1 :
         /\ text[k].kind = "edge"
         /\ \E n \in GraphReach : \E t \in Range(succ[n]) \ {None} :
              text[k].from = nodeId[n] /\ text[k].to = nodeId[t]
    /\ \A n \in GraphReach : \A t \in Range(succ[n]) \ {None} :
         CountIn(text, [kind |-> "edge", from |-> nodeId[n], to |-> nodeId[t]])
            = Cardinality({j \in 1 .. Len(succ[n]) : succ[n][j] = t})

\* C9: dumpDotFile completes, having visited each reachable node once and
\* written every edge of the reachable graph exactly once between the digraph
\* line and the closing line, also when the graph has cycles.
C9_DotFileListsEveryEdgeOnce ==
    (result.op = "dumpDotFile" /\ DistinctIds(GraphReach)) =>
       /\ ~result.raised
       /\ DotTextListsEdgesOnce(result.text)
       /\ graph[TheGraph].nodeDict = {nodeId[n] : n \in GraphReach}

\* what the code does hold to: C9 on graphs without a reachable sentinel
\* entry, and AttributeError with nothing written on all others
DotFileWithoutSentinel ==
    (result.op = "dumpDotFile" /\ DistinctIds(GraphReach)) =>
       IF SentinelReachable
       THEN result.raised /\ result.text = <<>>
       ELSE /\ ~result.raised
            /\ DotTextListsEdgesOnce(result.text)
            /\ graph[TheGraph].nodeDict = {nodeId[n] : n \in GraphReach}

\* an addRoot call on a full graph raises and leaves the roots as they are;
\* on any other graph it appends one root; nothing else changes the roots
AddRootStep ==
    LET gr == graph[TheGraph]
    IN  /\ gr.roots # graph'[TheGraph].roots => result'.op = "addRoot"
        /\ result'.op = "addRoot" =>
             IF Len(gr.roots) = gr.numRoots
             THEN result'.raised /\ graph' = graph
             ELSE /\ ~result'.raised
                  /\ Len(graph'[TheGraph].roots) = Len(gr.roots) + 1
                  /\ SubSeq(graph'[TheGraph].roots, 1, Len(gr.roots)) = gr.roots

\* C10: a graph never holds more roots than its capacity; addRoot on a graph
\* that already holds that many fails with IndexError and leaves the roots
\* unchanged; with capacity 0 every addRoot fails.
C10_RootsWithinCapacity ==
    /\ [](/\ Len(graph[TheGraph].roots) <= graph[TheGraph].numRoots
          /\ graph[TheGraph].numRoots = 0 /\ result.op = "addRoot" => result.raised)
    /\ [][AddRootStep]_vars

\* addRoot was refused on a graph filled to a capacity of MaxRoots
C10_Witness ==
    /\ result.op = "addRoot"
    /\ result.raised
    /\ graph[TheGraph].numRoots = MaxRoots
    /\ Len(graph[TheGraph].roots) = MaxRoots

(***************************************************************************)
(* TreeBuilder and DAGBuilder (graph_builder.py): one generateNewGraph()   *)
(* call, in the steps of its loops.  Node objects are numbered in the      *)
(* order the builder creates them; list positions and layer indexes count  *)
(* from 1 where Python counts from 0.                                      *)
(***************************************************************************)
MaxBuildRoots == 2  \* largest NUM_ROOTS
MaxLeaves == 2      \* largest NUM_LEAVES
MaxDegree == 2      \* largest BRANCHING_DEGREE
MaxInner == 2       \* largest NUM_INNER_NODES
MaxPairs == 6       \* most (node, position) pairs of a layer and the next a build goes on with
MaxGoodDraws == 3   \* most draws of a logger class that succeed before one that fails
SkipFraction == 3
MinSkipLevels == 4
LoopFraction == 5
NodesPerLoop == 3
MinLoopLevels == 3
Inherited == -1     \* DCGBuilder has no attribute numNodes of its own yet

DeltaRange(cfg) == cfg.branchingDegree \div 2

\* TreeBuilder._howManySuccessors(): the numbers it can return
HowManySuccessors(cfg) ==
    {1, 2} \cup (cfg.branchingDegree - DeltaRange(cfg)
                   .. cfg.branchingDegree + DeltaRange(cfg))

\* sample(range(n), k): k distinct positions in any order
Samples(n, k) ==
    {s \in [1 .. k -> 1 .. n] : \A a, b \in 1 .. k : a # b => s[a] # s[b]}

\* [None] * n
Nones(n) == [i \in 1 .. n |-> None]

\* nextLayer after "while True: nextLayer.remove(None)"
RECURSIVE RemoveNones(_)
RemoveNones(list) ==
    IF list = <<>> THEN <<>>
    ELSE IF Head(list) = None THEN RemoveNones(Tail(list))
         ELSE <<Head(list)>> \o RemoveNones(Tail(list))

\* the names SUPPORTED_NODE_TYPES is drawn from: a concrete logger class,
\* the abstract one, and a name the module logger_node does not have
LoggerTypes == {"SimpleLoggerNode", "LoggerNode", "NoSuchNode"}

\* getattr(Utils.LOGGER_NODE_MODULE, loggerNodeClassName)(nodeID, ...):
\* what the call raises
Instantiate(loggerNodeClassName) ==
    CASE loggerNodeClassName = "SimpleLoggerNode" -> "none"
      [] loggerNodeClassName = "LoggerNode" -> "TypeError"
      [] OTHER -> "AttributeError"

\* no draw of a logger class fails in the rest of the build
NoLimit == -1

\* variant: the entity number is left out
GenerateIDWithoutNum(entityType, entityNum) == entityType \o <<"::">>

\* Utils.generateID: "::".join([entityType, str(entityNum)]), a string being
\* the sequence of its pieces
GenerateID(entityType, entityNum) == entityType \o <<"::", ToString(entityNum)>>

\* the object the next node created is
NextObj(st) == Cardinality(DOMAIN st.succ) + 1

\* Utils.newRandomNode(nodeID, ...): the heap with one more node, or the
\* error the logger class drawn fails with; st.goodDraws is the number of
\* draws of a logger class that are still to succeed before st.failsWith is
\* drawn.  Which core class the node draws is not kept: the builders never
\* add None, and both classes append any node.
NewRandomNode(st, nodeID) ==
    IF st.goodDraws = 0
    THEN [st EXCEPT !.pc = "raised", !.raised = Instantiate(st.failsWith)]
    ELSE [st EXCEPT !.succ = (NextObj(st) :> <<>>) @@ @,
                    !.nodeId = (NextObj(st) :> nodeID) @@ @,
                    !.goodDraws = IF @ = NoLimit THEN @ ELSE @ - 1]

Raised(st) == st.pc = "raised"

\* a node of a tree layer: its id is made of TreeBuilder.numNodes, which
\* goes up by one after the node was created
NewTreeNode(st, kind) ==
    LET made == NewRandomNode(st, GenerateID(<<kind>>, st.numNodes))
    IN  IF Raised(made) THEN made ELSE [made EXCEPT !.numNodes = @ + 1]

\* variant: the count returned goes up with every edge
RECURSIVE ConnectAllCountingEdges(_, _, _)
ConnectAllCountingEdges(st, node, succPositions) ==
    IF succPositions = <<>> \/ Raised(st)
    THEN st
    ELSE LET succPos == Head(succPositions)
             fresh == st.toLayer[succPos] = None
             new == NewTreeNode(st, "node")
             made == IF Raised(new) THEN new
                     ELSE [new EXCEPT !.toLayer[succPos] = NextObj(st)]
             base == IF fresh THEN made ELSE st
             succNode == base.toLayer[succPos]
         IN  IF Raised(base) THEN base
             ELSE
             ConnectAllCountingEdges(
                 [base EXCEPT
                    !.succ[node] = NodeAddSuccessor(UniformLogger, @, succNode),
                    !.made = @ + 1,
                    !.covered = @ \cup {succPos}],
                 node, Tail(succPositions))

\* the body of "for succPos in succPositions" of _makeConnections, for the
\* positions of one sample
RECURSIVE ConnectAll(_, _, _)
ConnectAll(st, node, succPositions) ==
    IF succPositions = <<>> \/ Raised(st)
    THEN st
    ELSE LET succPos == Head(succPositions)
             fresh == st.toLayer[succPos] = None
             new == NewTreeNode(st, "node")
             made == IF Raised(new) THEN new
                     ELSE [new EXCEPT !.toLayer[succPos] = NextObj(st),
                                      !.made = @ + 1]
             base == IF fresh THEN made ELSE st
             succNode == base.toLayer[succPos]
         IN  IF Raised(base) THEN base
             ELSE
             ConnectAll([base EXCEPT
                           !.succ[node] = NodeAddSuccessor(UniformLogger, @, succNode),
                           !.covered = @ \cup {succPos}],
                        node, Tail(succPositions))

\* variant: the first leaf is never looked at
UncoveredButFirst(size, covered) == (2 .. size) \ covered

\* set(range(sizeToLayer)).difference(leavesCovered.keys())
Uncovered(size, covered) == (1 .. size) \ covered

\* the loop that connects every uncovered leaf, in ascending order of the
\* positions, from[succPos] being the position randint drew for it
RECURSIVE ForceConnect(_, _, _)
ForceConnect(st, todo, from) ==
    IF todo = {}
    THEN st
    ELSE LET succPos == CHOOSE q \in todo : \A r \in todo : q <= r
             node == st.fromLayer[from[succPos]]
         IN  ForceConnect([st EXCEPT
                             !.succ[node] =
                                 NodeAddSuccessor(UniformLogger, @, st.toLayer[succPos]),
                             !.made = @ + 1],
                          todo \ {succPos}, from)

\* variant: the edge may end in any layer
SkipTargetsAnyLevel(level, numLevels) == 1 .. numLevels

\* randint(level + 2, numLevels - 1)
SkipTargets(level, numLevels) == level + 2 .. numLevels

BuildConfigs ==
    [numRoots : 1 .. MaxBuildRoots, numLeaves : 0 .. MaxLeaves,
     branchingDegree : 1 .. MaxDegree, numInnerNodes : 0 .. MaxInner,
     supportedNodeTypes : {<<"SimpleLoggerNode">>}]

\* how the draws of a logger class can go in one build: all of them good, or
\* goodDraws good ones and then the name failsWith
Fates(cfg) ==
    LET names == Range(cfg.supportedNodeTypes)
        bad == {t \in names : Instantiate(t) # "none"}
    IN  {[goodDraws |-> NoLimit, failsWith |-> "none"] : t \in names \ bad}
        \cup {[goodDraws |-> k, failsWith |-> t] :
                 k \in (IF names = bad THEN {0} ELSE 0 .. MaxGoodDraws), t \in bad}

\* a builder that was constructed, before generateNewGraph() is called
NewBuilder(cls, cfg) ==
    [pc |-> "start", cls |-> cls, cfg |-> cfg, numGraphs |-> 0, numNodes |-> 0,
     loopNumNodes |-> Inherited, kwargs |-> <<>>, key |-> "none",
     reverseEdges |-> FALSE, numLoopNodes |-> 0, loopsLeft |-> 0,
     goodDraws |-> NoLimit, failsWith |-> "none",
     succ |-> <<>>, nodeId |-> <<>>, nodeLayers |-> <<>>,
     fromLayer |-> <<>>, toLayer |-> <<>>, toLeafLayer |-> FALSE,
     fromPos |-> 1, made |-> 0, covered |-> {}, bal |-> 0,
     fromLevels |-> <<>>, treeSucc |-> <<>>, raised |-> "none",
     heapBefore |-> 0]

InitBuild ==
    /\ succ = <<>>
    /\ nodeId = <<>>
    /\ graph = <<>>
    /\ cfgList = <<>>
    /\ inclSessionID = FALSE
    /\ gens = [g \in GenIds |-> NoFrame]
    /\ lines = [g \in GenIds |-> <<>>]
    /\ walked = [g \in GenIds |-> 0]
    /\ result = [op |-> "none"]
    /\ policy = <<>>
    /\ calls = <<>>
    /\ \E cls \in {"TreeBuilder", "DAGBuilder"}, cfg \in BuildConfigs :
         build = NewBuilder(cls, cfg)

rest == <<cfgList, inclSessionID, gens, lines, walked, result, policy, calls>>

\* the heap and the builder after a step that left the builder in st
Store(st) ==
    /\ succ' = st.succ
    /\ nodeId' = st.nodeId
    /\ build' = st

\* variant: the layers of the graph built before stay in self._nodeLayers
FreshBuildKeepingLayers(st) ==
    [st EXCEPT !.fromLayer = <<>>, !.toLayer = <<>>, !.toLeafLayer = FALSE,
               !.fromPos = 1, !.made = 0, !.covered = {}, !.bal = 0,
               !.fromLevels = <<>>, !.treeSucc = <<>>, !.raised = "none",
               !.loopsLeft = 0, !.heapBefore = Cardinality(DOMAIN st.succ)]

\* the builder at the start of generateNewGraph: self._nodeLayers = list(),
\* and no reference to the nodes of the graphs it returned before, which are
\* left to their callers; heapBefore is the number of node objects that
\* exist when the call begins
FreshBuild(st) ==
    [st EXCEPT !.nodeLayers = <<>>,
               !.fromLayer = <<>>, !.toLayer = <<>>, !.toLeafLayer = FALSE,
               !.fromPos = 1, !.made = 0, !.covered = {}, !.bal = 0,
               !.fromLevels = <<>>, !.treeSucc = <<>>, !.raised = "none",
               !.loopsLeft = 0, !.heapBefore = Cardinality(DOMAIN st.succ)]

\* the Graph object the next call of generateNewGraph creates
NextGraphObj == Cardinality(DOMAIN graph) + 1

SlotsAfter(cfg, layer) == Len(layer) * (cfg.branchingDegree + DeltaRange(cfg))

\* the pairs of a node of layer and a position of the list after it
PairsAfter(cfg, layer) == Len(layer) * SlotsAfter(cfg, layer)

RECURSIVE AddRoots(_, _, _)
AddRoots(gr, st, k) ==
    IF k = 0
    THEN [graph |-> gr, st |-> st]
    ELSE LET made == NewTreeNode(st, "root")
             added == GraphAddRoot(gr, NextObj(st))
         IN  IF Raised(made) THEN [graph |-> gr, st |-> made]
             ELSE AddRoots(added.graph,
                           [made EXCEPT !.fromLayer = Append(@, NextObj(st))], k - 1)

\* generateNewGraph, steps 1 and 2 and the set-up of step 3
CreateRoots ==
    /\ build.pc = "start"
    /\ PairsAfter(build.cfg, Nones(build.cfg.numRoots)) <= MaxPairs
    /\ \E fate \in Fates(build.cfg) :
         LET numGraphs == build.numGraphs + 1
             new == AddRoots([id |-> GenerateID(<<"graph">>, numGraphs),
                              numRoots |-> build.cfg.numRoots,
                              roots |-> <<>>, nodeDict |-> {}],
                             [FreshBuild(build) EXCEPT
                                !.numGraphs = numGraphs,
                                !.goodDraws = fate.goodDraws,
                                !.failsWith = fate.failsWith],
                             build.cfg.numRoots)
             rootLayer == new.st.fromLayer
         IN  /\ graph' = (NextGraphObj :> new.graph) @@ graph
             /\ Store(IF Raised(new.st) THEN new.st
                      ELSE [new.st EXCEPT
                              !.pc = "connect",
                              !.nodeLayers = Append(@, rootLayer),
                              !.bal = build.cfg.numInnerNodes,
                              !.toLayer = Nones(SlotsAfter(build.cfg, rootLayer))])
    /\ UNCHANGED rest

Connecting == build.pc = "connect" /\ build.fromPos <= Len(build.fromLayer)

\* how many successors the node of this round is to get
HowMany ==
    IF build.toLeafLayer
    THEN 1 .. (IF Len(build.toLayer) < 2 THEN Len(build.toLayer) ELSE 2)
    ELSE HowManySuccessors(build.cfg)

\* _makeConnections, one round of "for node in fromLayer"
ConnectNode ==
    /\ Connecting
    /\ \E k \in HowMany : \E succPositions \in Samples(Len(build.toLayer), k) :
         Store([ConnectAll(build, build.fromLayer[build.fromPos], succPositions)
                  EXCEPT !.fromPos = @ + 1])
    /\ UNCHANGED <<graph, rest>>

\* sample() asked for more positions than toLayer has
SampleRaises ==
    /\ Connecting
    /\ \E k \in HowMany : k > Len(build.toLayer)
    /\ Store([build EXCEPT !.pc = "raised", !.raised = "ValueError"])
    /\ UNCHANGED <<graph, rest>>

\* randint(1, 0), when there are no leaves
RandintRaises ==
    /\ Connecting
    /\ HowMany = {}
    /\ Store([build EXCEPT !.pc = "raised", !.raised = "ValueError"])
    /\ UNCHANGED <<graph, rest>>

InnerLayerDone ==
    /\ build.pc = "connect"
    /\ ~build.toLeafLayer
    /\ build.fromPos > Len(build.fromLayer)

\* the while loop of step 3 after _makeConnections returned, more inner
\* nodes being wanted
NextInnerLayer ==
    /\ InnerLayerDone
    /\ build.bal - build.made > 0
    /\ LET currLayer == RemoveNones(build.toLayer)
       IN  /\ PairsAfter(build.cfg, currLayer) <= MaxPairs
           /\ Store([build EXCEPT
                       !.bal = @ - build.made,
                       !.nodeLayers = Append(@, currLayer),
                       !.fromLayer = currLayer,
                       !.toLayer = Nones(SlotsAfter(build.cfg, currLayer)),
                       !.fromPos = 1, !.made = 0, !.covered = {}])
    /\ UNCHANGED <<graph, rest>>

RECURSIVE AddLeaves(_, _)
AddLeaves(st, k) ==
    IF k = 0
    THEN st
    ELSE LET made == NewTreeNode(st, "leaf")
         IN  IF Raised(made) THEN made
             ELSE AddLeaves([made EXCEPT !.toLayer = Append(@, NextObj(st))], k - 1)

\* the end of the while loop of step 3, and step 4 up to the call of
\* _makeConnections
CreateLeaves ==
    /\ InnerLayerDone
    /\ build.bal - build.made <= 0
    /\ LET currLayer == RemoveNones(build.toLayer)
       IN  /\ Len(currLayer) * build.cfg.numLeaves <= MaxPairs
           /\ Store(AddLeaves([build EXCEPT
                                  !.bal = @ - build.made,
                                  !.nodeLayers = Append(@, currLayer),
                                  !.fromLayer = currLayer,
                                  !.toLayer = <<>>, !.toLeafLayer = TRUE,
                                  !.fromPos = 1, !.made = 0, !.covered = {}],
                               build.cfg.numLeaves))
    /\ UNCHANGED <<graph, rest>>

\* the end of _makeConnections for the leaf layer, and the return of
\* TreeBuilder.generateNewGraph
ConnectUncovered ==
    /\ build.pc = "connect"
    /\ build.toLeafLayer
    /\ build.fromPos > Len(build.fromLayer)
    /\ LET todo == Uncovered(Len(build.toLayer), build.covered)
       IN  \E from \in [todo -> 1 .. Len(build.fromLayer)] :
             LET st == ForceConnect(build, todo, from)
             IN  Store([st EXCEPT
                          !.nodeLayers = Append(@, st.toLayer),
                          !.treeSucc = st.succ,
                          !.pc = IF st.cls = "TreeBuilder" THEN "returned" ELSE "built"])
    /\ UNCHANGED <<graph, rest>>

NumLevels == Len(build.nodeLayers)

\* ceil(a / b) for a >= 0 and b > 0
Ceil(a, b) == (a + b - 1) \div b

\* variant: only whole groups of NodesPerLoop reserved nodes make a loop
AfterDagFloor(st) ==
    IF st.cls # "DCGBuilder" \/ MinLoopLevels > Len(st.nodeLayers)
    THEN [st EXCEPT !.pc = "returned"]
    ELSE [st EXCEPT !.pc = "loops",
                    !.loopsLeft = st.numLoopNodes \div NodesPerLoop]

\* where the builder is once DAGBuilder.generateNewGraph has returned: a
\* DAGBuilder returns the graph, a DCGBuilder goes on with the test of
\* numLevels and the number of loops
AfterDag(st) ==
    IF st.cls # "DCGBuilder" \/ MinLoopLevels > Len(st.nodeLayers)
    THEN [st EXCEPT !.pc = "returned"]
    ELSE [st EXCEPT !.pc = "loops",
                    !.loopsLeft = Ceil(st.numLoopNodes, NodesPerLoop)]

\* DAGBuilder.generateNewGraph on a tree of fewer than four layers
ReturnTree ==
    /\ build.pc = "built"
    /\ MinSkipLevels > NumLevels
    /\ Store(AfterDag(build))
    /\ UNCHANGED <<graph, rest>>

\* sample(range(numLevels - 2), numLevels // self._skipFraction)
ChooseFromLevels ==
    /\ build.pc = "built"
    /\ MinSkipLevels <= NumLevels
    /\ \E fromLevels \in Samples(NumLevels - 2, NumLevels \div SkipFraction) :
         Store([build EXCEPT !.pc = "skip", !.fromLevels = fromLevels])
    /\ UNCHANGED <<graph, rest>>

\* one round of "for level in fromLevels"
AddSkipEdge ==
    /\ build.pc = "skip"
    /\ build.fromLevels # <<>>
    /\ LET level == Head(build.fromLevels)
       IN  \E fromNode \in Range(build.nodeLayers[level]) :
             \E toLevel \in SkipTargets(level, NumLevels) :
               \E toNode \in Range(build.nodeLayers[toLevel]) :
                 Store([build EXCEPT
                          !.succ[fromNode] = NodeAddSuccessor(UniformLogger, @, toNode),
                          !.fromLevels = Tail(@)])
    /\ UNCHANGED <<graph, rest>>

\* the return of DAGBuilder.generateNewGraph after the loop
ReturnDag ==
    /\ build.pc = "skip"
    /\ build.fromLevels = <<>>
    /\ Store(AfterDag(build))
    /\ UNCHANGED <<graph, rest>>

NextBuild ==
    \/ CreateRoots
    \/ ConnectNode
    \/ SampleRaises
    \/ RandintRaises
    \/ NextInnerLayer
    \/ CreateLeaves
    \/ ConnectUncovered
    \/ ReturnTree
    \/ ChooseFromLevels
    \/ AddSkipEdge
    \/ ReturnDag

SpecBuild == InitBuild /\ [][NextBuild]_vars

(***************************************************************************)
(* Builders constructed from keyword arguments, of the three classes, and  *)
(* several graphs built one after another: the class attributes numGraphs  *)
(* and numNodes outlive the builders.                                      *)
(***************************************************************************)
MaxBuilds == 2          \* most calls of generateNewGraph in a series
MaxSeriesInner == 3     \* largest NUM_INNER_NODES in a series

\* the keywords in the order TreeBuilder.__init__ reads them
TreeKeys ==
    <<"NUM_ROOTS", "NUM_LEAVES", "NUM_INNER_NODES", "BRANCHING_DEGREE",
      "SUPPORTED_NODE_TYPES">>

\* int(s) of the decimal numeral s
ParseInt(s) == CHOOSE n \in 0 .. 9 : ToString(n) = s

\* bool(s) of a string
PyBool(s) == s # ""

\* variant: NUM_LEAVES is not asked for
FirstMissingButLeaves(kwargs) ==
    LET missing == {i \in DOMAIN TreeKeys :
                      TreeKeys[i] \notin DOMAIN kwargs /\ TreeKeys[i] # "NUM_LEAVES"}
    IN  IF missing = {} THEN "none"
        ELSE TreeKeys[CHOOSE i \in missing : \A j \in missing : i <= j]

\* the keyword whose lookup raises KeyError in TreeBuilder.__init__: the
\* first one, in the order of the lookups, that kwargs lacks
FirstMissing(kwargs) ==
    LET missing == {i \in DOMAIN TreeKeys : TreeKeys[i] \notin DOMAIN kwargs}
    IN  IF missing = {} THEN "none"
        ELSE TreeKeys[CHOOSE i \in missing : \A j \in missing : i <= j]

\* TreeBuilder.__init__(**kwargs): the fields it sets, or the KeyError
TreeBuilderInit(kwargs) ==
    IF FirstMissing(kwargs) # "none"
    THEN [raised |-> "KeyError", key |-> FirstMissing(kwargs)]
    ELSE [raised |-> "none", key |-> "none",
          cfg |-> [numRoots |-> ParseInt(kwargs["NUM_ROOTS"]),
                   numLeaves |-> IF "NUM_LEAVES" \in DOMAIN kwargs
                                 THEN ParseInt(kwargs["NUM_LEAVES"]) ELSE 0,
                   numInnerNodes |-> ParseInt(kwargs["NUM_INNER_NODES"]),
                   branchingDegree |-> ParseInt(kwargs["BRANCHING_DEGREE"]),
                   supportedNodeTypes |-> kwargs["SUPPORTED_NODE_TYPES"]],
          reverseEdges |-> FALSE, numLoopNodes |-> 0]

\* DCGBuilder.__init__(**kwargs)
DCGBuilderInit(kwargs) ==
    LET base == TreeBuilderInit(kwargs)
        numLoopNodes == Ceil(base.cfg.numInnerNodes, LoopFraction)
    IN  IF base.raised # "none" THEN base
        ELSE [base EXCEPT
                !.reverseEdges = IF "REVERSE_EDGES" \in DOMAIN kwargs
                                 THEN PyBool(kwargs["REVERSE_EDGES"]) ELSE FALSE,
                !.numLoopNodes = numLoopNodes,
                !.cfg.numInnerNodes = @ - numLoopNodes]

BuilderInit(cls, kwargs) ==
    IF cls = "DCGBuilder" THEN DCGBuilderInit(kwargs) ELSE TreeBuilderInit(kwargs)

BuilderClasses == {"TreeBuilder", "DAGBuilder", "DCGBuilder"}

\* the keyword arguments of the series: one root, one leaf, branching
\* degree 2
FullKwargs(numInnerNodes, types) ==
    ("NUM_ROOTS" :> "1") @@ ("NUM_LEAVES" :> "1")
    @@ ("NUM_INNER_NODES" :> ToString(numInnerNodes))
    @@ ("BRANCHING_DEGREE" :> "2") @@ ("SUPPORTED_NODE_TYPES" :> types)

Without(kwargs, keys) == [k \in DOMAIN kwargs \ keys |-> kwargs[k]]

\* SUPPORTED_NODE_TYPES after split(',') and strip()
TypeLists ==
    {<<"SimpleLoggerNode">>, <<"SimpleLoggerNode", "NoSuchNode">>, <<"LoggerNode">>}

BaseKwargs == FullKwargs(1, <<"SimpleLoggerNode">>)

SeriesKwargs ==
    {FullKwargs(n, types) : n \in 0 .. MaxSeriesInner, types \in TypeLists}
    \cup {FullKwargs(n, <<"SimpleLoggerNode">>) @@ ("REVERSE_EDGES" :> "True") :
            n \in 0 .. MaxSeriesInner}
    \cup {Without(BaseKwargs, {a, b}) : a, b \in Range(TreeKeys)}
    \cup {Without(BaseKwargs, {"NUM_INNER_NODES"})
          @@ ("MIN_NUM_INNER_NODES" :> "1") @@ ("MAX_NUM_INNER_NODES" :> "2")}

IdleConfig ==
    [numRoots |-> 0, numLeaves |-> 0, numInnerNodes |-> 0, branchingDegree |-> 0,
     supportedNodeTypes |-> <<>>]

InitSeries ==
    /\ succ = <<>>
    /\ nodeId = <<>>
    /\ graph = <<>>
    /\ cfgList = <<>>
    /\ inclSessionID = FALSE
    /\ gens = [g \in GenIds |-> NoFrame]
    /\ lines = [g \in GenIds |-> <<>>]
    /\ walked = [g \in GenIds |-> 0]
    /\ result = [op |-> "none"]
    /\ policy = <<>>
    /\ calls = <<>>
    /\ build = [NewBuilder("none", IdleConfig) EXCEPT !.pc = "idle"]

Finished == build.pc \in {"idle", "returned", "raised", "ctorRaised"}

\* the heap once the caller has let go of the graphs built before
Dropped(st) == [st EXCEPT !.succ = <<>>, !.nodeId = <<>>]

\* the builder cls(**kwargs) gives, the class counters being those of st
BuilderAfterInit(st, cls, kwargs) ==
    LET made == BuilderInit(cls, kwargs)
        idle == [FreshBuild(st) EXCEPT !.cls = cls, !.kwargs = kwargs,
                                       !.cfg = IdleConfig,
                                       !.reverseEdges = FALSE,
                                       !.numLoopNodes = 0]
    IN  IF made.raised # "none"
        THEN [idle EXCEPT !.pc = "ctorRaised",
                          !.raised = made.raised, !.key = made.key]
        ELSE [idle EXCEPT !.pc = "start", !.key = "none",
                          !.cfg = made.cfg,
                          !.reverseEdges = made.reverseEdges,
                          !.numLoopNodes = made.numLoopNodes]

\* cls(**kwargs), after the builds before it.  The graph of the build
\* before stays with its caller, who lets go of it: the heap holds the
\* nodes of one build.
Construct(cls, kwargs) ==
    /\ Finished
    /\ build.numGraphs < MaxBuilds
    /\ Store(BuilderAfterInit(Dropped(build), cls, kwargs))
    /\ graph' = <<>>
    /\ UNCHANGED rest

\* generateNewGraph() once more on the builder of the last build
GenerateAgain ==
    /\ build.pc \in {"returned", "raised"}
    /\ build.numGraphs < MaxBuilds
    /\ Store([FreshBuild(Dropped(build)) EXCEPT !.pc = "start"])
    /\ graph' = <<>>
    /\ UNCHANGED rest

\* DCGBuilder.numNodes as _attachLoop reads it: the attribute of DCGBuilder
\* once "DCGBuilder.numNodes += 1" has set one, TreeBuilder.numNodes before
LoopCounter(st) == IF st.loopNumNodes = Inherited THEN st.numNodes ELSE st.loopNumNodes

\* variant: the last node of the loop is not connected back to toNode
RECURSIVE AttachLoopOpen(_, _, _, _)
AttachLoopOpen(st, toNode, currNode, ofSize) ==
    IF Raised(st) \/ ofSize = 0 THEN st
    ELSE LET lNodeID == GenerateID(<<"loop_">> \o st.nodeId[toNode], LoopCounter(st))
             made == NewRandomNode(st, lNodeID)
             loopNode == NextObj(st)
         IN  IF Raised(made) THEN made
             ELSE AttachLoopOpen(
                      [made EXCEPT
                         !.loopNumNodes = LoopCounter(st) + 1,
                         !.succ[currNode] = NodeAddSuccessor(UniformLogger, @, loopNode)],
                      toNode, loopNode, ofSize - 1)

\* variant: the counter of the loop nodes stays where it is
RECURSIVE AttachLoopSameNumber(_, _, _, _)
AttachLoopSameNumber(st, toNode, currNode, ofSize) ==
    IF Raised(st) THEN st
    ELSE IF ofSize = 0
    THEN [st EXCEPT !.succ[currNode] = NodeAddSuccessor(UniformLogger, @, toNode)]
    ELSE LET lNodeID == GenerateID(<<"loop_">> \o st.nodeId[toNode], LoopCounter(st))
             made == NewRandomNode(st, lNodeID)
             loopNode == NextObj(st)
         IN  IF Raised(made) THEN made
             ELSE AttachLoopSameNumber(
                      [made EXCEPT
                         !.succ[currNode] = NodeAddSuccessor(UniformLogger, @, loopNode)],
                      toNode, loopNode, ofSize - 1)

\* DCGBuilder._attachLoop(toNode, ofSize), currNode being the node the next
\* loop node is added to
RECURSIVE AttachLoop(_, _, _, _)
AttachLoop(st, toNode, currNode, ofSize) ==
    IF Raised(st) THEN st
    ELSE IF ofSize = 0
    THEN [st EXCEPT !.succ[currNode] = NodeAddSuccessor(UniformLogger, @, toNode)]
    ELSE LET lNodeID == GenerateID(<<"loop_">> \o st.nodeId[toNode], LoopCounter(st))
             made == NewRandomNode(st, lNodeID)
             loopNode == NextObj(st)
         IN  IF Raised(made) THEN made
             ELSE AttachLoop(
                      [made EXCEPT
                         !.loopNumNodes = LoopCounter(st) + 1,
                         !.succ[currNode] = NodeAddSuccessor(UniformLogger, @, loopNode)],
                      toNode, loopNode, ofSize - 1)

\* one round of "for _ in range(numLoops)"
AddLoop ==
    /\ build.pc = "loops"
    /\ build.loopsLeft > 0
    /\ \E level \in 2 .. NumLevels - 1 :
         \E toNode \in Range(build.nodeLayers[level]) :
           LET st == AttachLoop(build, toNode, toNode, NodesPerLoop)
           IN  Store(IF Raised(st) THEN st ELSE [st EXCEPT !.loopsLeft = @ - 1])
    /\ UNCHANGED <<graph, rest>>

LoopsDone == build.pc = "loops" /\ build.loopsLeft = 0

\* "if not self._reverseEdges: return graph"
ReturnLooped ==
    /\ LoopsDone
    /\ ~build.reverseEdges
    /\ Store([build EXCEPT !.pc = "returned"])
    /\ UNCHANGED <<graph, rest>>

\* sample(range(2, numLevels - 1), numLevels // self._skipFraction), the
\* levels counted from 1
ChooseReverseLevels ==
    /\ LoopsDone
    /\ build.reverseEdges
    /\ \E picked \in Samples(NumLevels - 3, NumLevels \div SkipFraction) :
         Store([build EXCEPT
                  !.pc = "reverse",
                  !.fromLevels = [i \in DOMAIN picked |-> picked[i] + 2]])
    /\ UNCHANGED <<graph, rest>>

\* the same sample() asked for more levels than the range has
ReverseSampleRaises ==
    /\ LoopsDone
    /\ build.reverseEdges
    /\ NumLevels \div SkipFraction > NumLevels - 3
    /\ Store([build EXCEPT !.pc = "raised", !.raised = "ValueError"])
    /\ UNCHANGED <<graph, rest>>

\* one round of "for level in fromLevels" of DCGBuilder.generateNewGraph
AddReverseEdge ==
    /\ build.pc = "reverse"
    /\ build.fromLevels # <<>>
    /\ LET level == Head(build.fromLevels)
       IN  \E fromNode \in Range(build.nodeLayers[level]) :
             \E toLevel \in 1 .. level - 2 :
               \E toNode \in Range(build.nodeLayers[toLevel]) :
                 Store([build EXCEPT
                          !.succ[fromNode] = NodeAddSuccessor(UniformLogger, @, toNode),
                          !.fromLevels = Tail(@)])
    /\ UNCHANGED <<graph, rest>>

\* the return of DCGBuilder.generateNewGraph after the reverse edges
ReturnReversed ==
    /\ build.pc = "reverse"
    /\ build.fromLevels = <<>>
    /\ Store([build EXCEPT !.pc = "returned"])
    /\ UNCHANGED <<graph, rest>>

NextSeries ==
    \/ \E cls \in BuilderClasses, kwargs \in SeriesKwargs : Construct(cls, kwargs)
    \/ GenerateAgain
    \/ CreateRoots
    \/ ConnectNode
    \/ NextInnerLayer
    \/ CreateLeaves
    \/ ConnectUncovered
    \/ ReturnTree
    \/ ChooseFromLevels
    \/ AddSkipEdge
    \/ ReturnDag
    \/ AddLoop
    \/ ReturnLooped
    \/ ChooseReverseLevels
    \/ ReverseSampleRaises
    \/ AddReverseEdge
    \/ ReturnReversed

SpecSeries == InitSeries /\ [][NextSeries]_vars

(***************************************************************************)
(* The same series when the caller keeps every graph it was given: the     *)
(* nodes of the earlier graphs stay on the heap, next to those of the      *)
(* build that is under way.                                                *)
(***************************************************************************)
MaxKeptNodes == 5       \* most node objects on the heap when a call begins

\* the keyword arguments of the builders of such a series
KeptKwargs ==
    {FullKwargs(n, <<"SimpleLoggerNode">>) : n \in {0, 2}}
    \cup {FullKwargs(3, <<"SimpleLoggerNode">>) @@ ("REVERSE_EDGES" :> "True")}

\* cls(**kwargs), the graphs built before being kept
ConstructKeeping(cls, kwargs) ==
    /\ Finished
    /\ Cardinality(DOMAIN succ) <= MaxKeptNodes
    /\ Store(BuilderAfterInit(build, cls, kwargs))
    /\ UNCHANGED <<graph, rest>>

\* generateNewGraph() once more on the same builder, the graphs built
\* before being kept
GenerateAgainKeeping ==
    /\ build.pc \in {"returned", "raised"}
    /\ Cardinality(DOMAIN succ) <= MaxKeptNodes
    /\ Store([FreshBuild(build) EXCEPT !.pc = "start"])
    /\ UNCHANGED <<graph, rest>>

NextKeep ==
    \/ \E cls \in BuilderClasses, kwargs \in KeptKwargs : ConstructKeeping(cls, kwargs)
    \/ GenerateAgainKeeping
    \/ CreateRoots
    \/ ConnectNode
    \/ NextInnerLayer
    \/ CreateLeaves
    \/ ConnectUncovered
    \/ ReturnTree
    \/ ChooseFromLevels
    \/ AddSkipEdge
    \/ ReturnDag
    \/ AddLoop
    \/ ReturnLooped
    \/ ChooseReverseLevels
    \/ ReverseSampleRaises
    \/ AddReverseEdge
    \/ ReturnReversed

SpecKeep == InitSeries /\ [][NextKeep]_vars

(***************************************************************************)
(* Properties of the graphs the builders return, over SpecBuild.           *)
(***************************************************************************)
BuiltNodes == DOMAIN succ
LayerOf(n) == CHOOSE l \in 1 .. NumLevels : n \in Range(build.nodeLayers[l])
LeafLayer == build.nodeLayers[NumLevels]
PreLeafLayer == build.nodeLayers[NumLevels - 1]
TreeReturned == build.pc = "returned" /\ build.cls = "TreeBuilder"
DagReturned == build.pc = "returned" /\ build.cls = "DAGBuilder"

\* C19: the graph TreeBuilder.generateNewGraph returns has exactly NUM_ROOTS
\* roots, and each of its NUM_LEAVES leaves has an incoming edge from a node
\* of the layer before the leaves and is reachable from a root.
C19_LeavesConnected ==
    TreeReturned =>
        /\ Len(graph[TheGraph].roots) = build.cfg.numRoots
        /\ Cardinality(Range(graph[TheGraph].roots)) = build.cfg.numRoots
        /\ Len(LeafLayer) = build.cfg.numLeaves
        /\ Cardinality(Range(LeafLayer)) = build.cfg.numLeaves
        /\ \A leaf \in Range(LeafLayer) :
             /\ \E n \in Range(PreLeafLayer) : leaf \in Range(succ[n])
             /\ leaf \in ReachableFrom(graph[TheGraph].roots)

\* a tree with two roots and two leaves, one of which no node had drawn
C19_Witness ==
    /\ TreeReturned
    /\ build.cfg.numRoots = 2
    /\ build.cfg.numLeaves = 2
    /\ build.covered # {1, 2}

\* the successors a node got after the tree was built
SkipEdges(n) == SubSeq(succ[n], Len(build.treeSucc[n]) + 1, Len(succ[n]))

\* the nodes of S that are left when nodes without a successor among those
\* left are taken away again and again: the nodes on or leading to a cycle
RECURSIVE OnCycles(_)
OnCycles(S) ==
    LET sinks == {n \in S : \A k \in 1 .. Len(succ[n]) : succ[n][k] \notin S}
    IN  IF sinks = {} THEN S ELSE OnCycles(S \ sinks)

\* C20: the graph DAGBuilder.generateNewGraph returns is acyclic: edges are
\* added to the tree only when it has at least four layers, each of them from
\* a layer i to a layer i + 2 or deeper, no edge of the tree is removed, and
\* every edge goes to a strictly deeper layer.
C20_DagIsAcyclic ==
    DagReturned =>
        LET layer == [n \in BuiltNodes |-> LayerOf(n)]
        IN  /\ DOMAIN build.treeSucc = BuiltNodes
            /\ \A n \in BuiltNodes :
                 /\ \A m \in Range(succ[n]) : m # None /\ layer[m] > layer[n]
                 /\ Len(succ[n]) >= Len(build.treeSucc[n])
                 /\ SubSeq(succ[n], 1, Len(build.treeSucc[n])) = build.treeSucc[n]
                 /\ \A m \in Range(SkipEdges(n)) : layer[m] >= layer[n] + 2
                 /\ NumLevels < 4 => SkipEdges(n) = <<>>
            /\ OnCycles(BuiltNodes) = {}

\* a graph of four layers with an edge that skips one
C20_Witness ==
    /\ DagReturned
    /\ NumLevels = 4
    /\ \E n \in BuiltNodes : \E m \in Range(SkipEdges(n)) : LayerOf(m) = LayerOf(n) + 2

InnerNodes == {n \in BuiltNodes : nodeId[n][1] = "node"}
InitialBudget == build.cfg.numInnerNodes
GrowthStopped == build.toLeafLayer
InEdges(n) == {m \in BuiltNodes : n \in Range(succ[m])}

\* C30: a growth step takes from the remaining budget the number of inner
\* nodes it created, which is the size of the new layer without its empty
\* slots, whatever the number of edges it added: the remaining budget is
\* always the initial budget less the inner nodes created so far, and once
\* growth has stopped there are at least as many inner nodes as the initial
\* budget.
C30_BudgetCountsNewNodes ==
    /\ (build.pc = "connect" /\ ~GrowthStopped) =>
          /\ build.made = Len(RemoveNones(build.toLayer))
          /\ build.bal - build.made = InitialBudget - Cardinality(InnerNodes)
    /\ GrowthStopped =>
          /\ build.bal = InitialBudget - Cardinality(InnerNodes)
          /\ build.bal <= 0
          /\ Cardinality(InnerNodes) >= InitialBudget

\* growth stopped after two layers, one of them with more edges into it
\* than nodes, and the graph was returned
C30_Witness ==
    /\ build.pc = "returned"
    /\ NumLevels = 4
    /\ InitialBudget = 2
    /\ \E n \in InnerNodes : Cardinality(InEdges(n)) >= 2
    /\ build.bal = InitialBudget - Cardinality(InnerNodes)

\* C29: an inner layer is grown only while the remaining budget is
\* positive and growth stops once it is zero or below; with NUM_INNER_NODES
\* = 0 no inner layer is created and the roots are the layer before the
\* leaves.
C29_GrowsOnlyWhileBudgetPositive ==
    /\ (build.pc = "connect" /\ ~GrowthStopped) => build.bal > 0
    /\ (GrowthStopped /\ InitialBudget = 0) =>
          /\ InnerNodes = {}
          /\ build.fromLayer = build.nodeLayers[1]

\* what does hold: after the first inner layer, which is always grown, a
\* further one is grown only while the remaining budget is positive
LaterLayersWhileBudgetPositive ==
    (build.pc = "connect" /\ ~GrowthStopped /\ NumLevels > 1) => build.bal > 0

(***************************************************************************)
(* Properties of construction and of series of builds, over SpecSeries.    *)
(***************************************************************************)
Counters(st) == <<st.numGraphs, st.numNodes, st.loopNumNodes>>
Lacking(kwargs) == {k \in Range(TreeKeys) : k \notin DOMAIN kwargs}
Constructed == Finished /\ build'.pc \in {"start", "ctorRaised"}

\* C23: the construction of a builder from keyword arguments that lack one
\* of the five required keys raises an error that names a missing key, and
\* leaves the counters of graphs and nodes as they were and the heap without
\* a graph or a node; with all five it succeeds.
MissingKeyRefused ==
    Constructed =>
        IF Lacking(build'.kwargs) = {}
        THEN build'.pc = "start"
        ELSE /\ build'.pc = "ctorRaised"
             /\ build'.raised = "KeyError"
             /\ build'.key \in Lacking(build'.kwargs)
             /\ Counters(build') = Counters(build)
             /\ succ' = <<>>
             /\ graph' = <<>>

C23_MissingKeyFailsConstruction == [][MissingKeyRefused]_vars

\* after a build that made nodes, a builder without NUM_LEAVES was refused
C23_Witness ==
    /\ build.pc = "ctorRaised"
    /\ Lacking(build.kwargs) = {"NUM_LEAVES"}
    /\ build.key = "NUM_LEAVES"
    /\ build.numGraphs = 1
    /\ build.numNodes >= 3
    /\ succ = <<>>

RangeKeys == {"MIN_NUM_INNER_NODES", "MAX_NUM_INNER_NODES"}
HasRange(kwargs) ==
    /\ RangeKeys \subseteq DOMAIN kwargs
    /\ Lacking(kwargs) = {"NUM_INNER_NODES"}

\* C24: a builder given MIN_NUM_INNER_NODES and MAX_NUM_INNER_NODES in
\* place of NUM_INNER_NODES is constructed, and the budget of inner nodes
\* of its builds lies between the two.
C24_RangeInPlaceOfCount ==
    (build.pc \in {"start", "ctorRaised"} /\ HasRange(build.kwargs)) =>
        /\ build.pc = "start"
        /\ ParseInt(build.kwargs["MIN_NUM_INNER_NODES"]) <= build.cfg.numInnerNodes
        /\ build.cfg.numInnerNodes <= ParseInt(build.kwargs["MAX_NUM_INNER_NODES"])

BadTypes == {t \in Range(build.cfg.supportedNodeTypes) : Instantiate(t) # "none"}
Generating == build.pc \notin {"idle", "start", "ctorRaised"}
FailedAtFirstNode ==
    /\ build.pc = "raised"
    /\ build.raised \in {"AttributeError", "TypeError"}
    /\ succ = <<>>

\* C26: generateNewGraph of a builder whose SUPPORTED_NODE_TYPES names a
\* type that is missing or cannot be instantiated fails with the error of
\* resolving that type when it creates its first node, and returns no graph.
C26_BadTypeFailsFirst ==
    (Generating /\ BadTypes # {}) => FailedAtFirstNode

\* what does hold: it does so when no name of the list can be instantiated
OnlyBadTypesFailFirst ==
    (Generating /\ BadTypes = Range(build.cfg.supportedNodeTypes)) => FailedAtFirstNode

Returned == build.pc = "returned"
GraphNodes1 == ReachableFrom(graph[TheGraph].roots)
LoopNodes == {n \in BuiltNodes : nodeId[n][1] = "loop_"}

\* C21: a graph that DCGBuilder.generateNewGraph returns and that has at
\* least three layers has a directed cycle that can be reached from a root.
C21_CyclicGraphHasCycle ==
    (Returned /\ build.cls = "DCGBuilder" /\ NumLevels >= MinLoopLevels) =>
        OnCycles(GraphNodes1) # {}

\* what does hold: it has one when NUM_INNER_NODES is at least 1
CycleWhenInnerNodesAsked ==
    (Returned /\ build.cls = "DCGBuilder"
     /\ ParseInt(build.kwargs["NUM_INNER_NODES"]) >= 1) =>
        OnCycles(GraphNodes1) # {}

\* C22: the nodes that can be reached from the roots of a graph a builder
\* of any of the three classes returns, loop nodes included, have pairwise
\* distinct identifiers, in the first graph of a series and in the later
\* ones, whichever builders built the graphs before.
C22_IdentifiersDistinct ==
    Returned =>
        /\ GraphNodes1 = BuiltNodes
        /\ DistinctIds(GraphNodes1)

Number(n) == nodeId[n][Len(nodeId[n])]

\* the second graph of a series, with a loop node that carries the same
\* number as a node of the tree
C22_Witness ==
    /\ Returned
    /\ build.numGraphs = 2
    /\ \E l \in LoopNodes : \E n \in BuiltNodes \ LoopNodes : Number(l) = Number(n)
    /\ DistinctIds(GraphNodes1)

(***************************************************************************)
(* Logger nodes (cfg/logger_node.py): a SimpleLoggerNode, the core node it *)
(* wraps, and a node of the class of the core that is given the same calls *)
(* on its own.  A string is the sequence of the pieces it is joined from.  *)
(***************************************************************************)
MaxLogSucc == 2     \* longest successor list of the wrapped node
Wrapper == 1
Core == 2
Alone == 3
LogSuccValues == {None, 4}
MinMesgSize == 1
MaxMesgSize == 4

\* s.lower()
Lower(s) ==
    CASE s = "True" -> "true"
      [] s = "False" -> "false"
      [] OTHER -> s

\* float(s) as a fraction of denominator PDen
ParseFloat(s) == CHOOSE p \in {<<0, PDen>>, <<1, PDen>>, <<PDen, PDen>>} :
                    s = (CASE p[1] = 0 -> "0.0" [] p[1] = PDen -> "1.0" [] OTHER -> "0.5")

\* mesgInfixes[0], "::", mesgInfixes[1], "::", ..., the entries j = from ..
\* upTo - 1 of the inner loop of _createLoglineSignature, the last "::"
\* popped
RECURSIVE Infixes(_, _, _)
Infixes(mesgInfixes, from, upTo) ==
    IF from >= upTo THEN <<>>
    ELSE mesgInfixes[(from % 2) + 1]
         \o (IF from + 1 < upTo THEN <<"::">> ELSE <<>>)
         \o Infixes(mesgInfixes, from + 1, upTo)

\* the pieces fixedMesgList gets in the rounds i = from .. mesgLen - 1
RECURSIVE SignatureRounds(_, _, _, _)
SignatureRounds(mesgInfixes, mesgInfix, from, mesgLen) ==
    IF from >= mesgLen THEN <<>>
    ELSE <<" ">> \o mesgInfix \o Infixes(mesgInfixes, 0, from + 1)
         \o SignatureRounds(mesgInfixes, mesgInfix, from + 1, mesgLen)

\* SimpleLoggerNode._createLoglineSignature(id, mesgPrefix) when randint
\* returns mesgLen
CreateLoglineSignature(id, coreID, mesgPrefix, mesgLen) ==
    LET mesgInfix == IF mesgPrefix # <<>> THEN mesgPrefix \o <<"-">> ELSE <<>>
    IN  mesgPrefix \o SignatureRounds(<<id, coreID>>, mesgInfix, 0, mesgLen)

\* SimpleLoggerNode.__init__(id, **kwargs), infoLen and errLen being the two
\* draws of randint: the fields of the logger
SimpleLoggerNodeInit(id, kwargs, infoLen, errLen) ==
    LET coreID == id \o <<"_Core">>
        prefix == IF "PREFIX" \in DOMAIN kwargs THEN <<kwargs["PREFIX"]>> ELSE <<>>
    IN  [class |-> "SimpleLoggerNode", core |-> Core, id |-> id,
         ignoreParams |-> IF "IGNORE_PARAMS" \in DOMAIN kwargs
                          THEN Lower(kwargs["IGNORE_PARAMS"]) = "true" ELSE FALSE,
         fixedInfoMesg |-> CreateLoglineSignature(id, coreID, prefix, infoLen),
         fixedErrMesg |->
             CreateLoglineSignature(id, coreID, prefix \o <<" ERROR">>, errLen),
         mesgLen |-> errLen]

\* the node LoggerNode.__init__ makes of kwargs[CORE_CLASS_NAME]
CoreNodeInit(kwargs, wrapper) ==
    [class |-> kwargs["CORE_CLASS_NAME"],
     p |-> IF "P_VALUE" \in DOMAIN kwargs THEN ParseFloat(kwargs["P_VALUE"])
           ELSE <<1, PDen>>,
     wrapper |-> wrapper]

\* variant: the message carries the number of successors of the node
CreateMesgWithCount(lg, list, timeStamp, params, mesgType) ==
    [raised |-> FALSE,
     value |-> <<timeStamp, " ", ToString(Len(list))>> \o lg.fixedInfoMesg]

\* SimpleLoggerNode._createMesg(timeStamp, params, mesgType) of the logger
\* lg, whose core node has the successors list
CreateMesg(lg, list, timeStamp, params, mesgType) ==
    LET fixed == IF mesgType = "INFO" THEN lg.fixedInfoMesg ELSE lg.fixedErrMesg
        mesgList == <<timeStamp, " ">> \o fixed
    IN  IF mesgType \notin {"INFO", "ERROR"}
        THEN [raised |-> TRUE, value |-> <<>>]
        ELSE [raised |-> FALSE,
              value |-> IF params.given /\ ~lg.ignoreParams
                        THEN mesgList \o <<" [WITH_PARAMS] ">> \o params.list
                        ELSE mesgList]

\* variant: the wrapper works on the list it has from Node.__init__
LoggerAddSuccessorOwnList(h, pol, n, successor) ==
    [h EXCEPT ![n] = NodeAddSuccessor(pol[pol[n].core], @, successor)]

\* LoggerNode.addSuccessor: self._coreNode.addSuccessor(successor)
LoggerAddSuccessor(h, pol, n, successor) ==
    [h EXCEPT ![pol[n].core] = NodeAddSuccessor(pol[pol[n].core], @, successor)]

\* LoggerNode.delLastSuccessor
LoggerDelLastSuccessor(h, pol, n) ==
    LET call == PyPop(h[pol[n].core])
    IN  [heap |-> [h EXCEPT ![pol[n].core] = call.list],
         raised |-> call.raised, value |-> call.value]

\* LoggerNode.getNumSuccessors
LoggerGetNumSuccessors(h, pol, n) == Len(h[pol[n].core])

\* LoggerNode.getSuccessorAt
LoggerGetSuccessorAt(h, pol, n, index) == PyGetItem(h[pol[n].core], index)

\* getSuccessorAtRandom of a node of either class, and the draws it can make
NodeAtRandom(pol, list, draw) ==
    IF pol.class = "UniformNode"
    THEN UniformAtRandom(list, draw)
    ELSE BinomialAtRandom(list, pol.p[1], draw)

NodeDraws(pol, list) ==
    IF pol.class = "UniformNode"
    THEN 0 .. (IF Len(list) = 0 THEN 0 ELSE Len(list) - 1)
    ELSE Draws(IF Len(list) = 0 THEN 0 ELSE Len(list) - 1)

\* LoggerNode.getSuccessorAtRandom
LoggerGetSuccessorAtRandom(h, pol, n, draw) ==
    NodeAtRandom(pol[pol[n].core], h[pol[n].core], draw)

LoggerKwargs ==
    LET cores == {("CORE_CLASS_NAME" :> "UniformNode"),
                  ("CORE_CLASS_NAME" :> "BinomialNode") @@ ("P_VALUE" :> "0.5")}
        ignores == {<<>>, ("IGNORE_PARAMS" :> "True"), ("IGNORE_PARAMS" :> "False")}
        prefixes == {<<>>, ("PREFIX" :> "P")}
    IN  cores \cup {("CORE_CLASS_NAME" :> "UniformNode") @@ i @@ x :
                       i \in ignores, x \in prefixes}

TimeStamps == {"t1", "t2"}
ParamChoices == {[given |-> FALSE, list |-> <<>>], [given |-> TRUE, list |-> <<"p ", "1">>]}
NoKept == [op |-> "none"]

InitLogger ==
    /\ succ = (Wrapper :> <<>>) @@ (Core :> <<>>) @@ (Alone :> <<>>)
    /\ nodeId = (Wrapper :> <<"n">>) @@ (Core :> <<"n", "_Core">>)
                @@ (Alone :> <<"n", "_Core">>)
    /\ graph = <<>>
    /\ cfgList = <<>>
    /\ inclSessionID = FALSE
    /\ gens = [g \in GenIds |-> NoFrame]
    /\ lines = [g \in GenIds |-> <<>>]
    /\ walked = [g \in GenIds |-> 0]
    /\ result = [op |-> "none"]
    /\ \E kwargs \in LoggerKwargs :
         \E infoLen, errLen \in MinMesgSize .. MaxMesgSize :
           policy = (Wrapper :> SimpleLoggerNodeInit(<<"n">>, kwargs, infoLen, errLen))
                    @@ (Core :> CoreNodeInit(kwargs, "SimpleLoggerNode"))
                    @@ (Alone :> CoreNodeInit(kwargs, "none"))
    /\ calls = (Wrapper :> [kept |-> NoKept])
    /\ build = NoBuild

logged == <<nodeId, graph, cfgList, inclSessionID, gens, lines, walked, build>>

\* wrapper.addSuccessor(successor), and the same call on the node alone
WrappedAddSuccessor(successor) ==
    /\ Len(succ[Core]) < MaxLogSucc
    /\ Len(succ[Wrapper]) < MaxLogSucc
    /\ succ' = [LoggerAddSuccessor(succ, policy, Wrapper, successor) EXCEPT
                  ![Alone] = NodeAddSuccessor(policy[Alone], @, successor)]
    /\ result' = [op |-> "addSuccessor", raised |-> FALSE, value |-> None,
                  alone |-> [raised |-> FALSE, value |-> None]]
    /\ UNCHANGED <<policy, calls, logged>>

\* wrapper.delLastSuccessor()
WrappedDelLastSuccessor ==
    LET call == LoggerDelLastSuccessor(succ, policy, Wrapper)
        alone == PyPop(succ[Alone])
    IN  /\ succ' = [call.heap EXCEPT ![Alone] = alone.list]
        /\ result' = [op |-> "delLastSuccessor", raised |-> call.raised,
                      value |-> call.value,
                      alone |-> [raised |-> alone.raised, value |-> alone.value]]
        /\ UNCHANGED <<policy, calls, logged>>

\* wrapper.getNumSuccessors()
WrappedGetNumSuccessors ==
    /\ result' = [op |-> "getNumSuccessors", raised |-> FALSE,
                  value |-> LoggerGetNumSuccessors(succ, policy, Wrapper),
                  alone |-> [raised |-> FALSE, value |-> Len(succ[Alone])]]
    /\ UNCHANGED <<succ, policy, calls, logged>>

\* wrapper.getSuccessorAt(index)
WrappedGetSuccessorAt(index) ==
    LET call == LoggerGetSuccessorAt(succ, policy, Wrapper, index)
        alone == PyGetItem(succ[Alone], index)
    IN  /\ result' = [op |-> "getSuccessorAt", raised |-> call.raised,
                      value |-> call.value,
                      alone |-> [raised |-> alone.raised, value |-> alone.value]]
        /\ UNCHANGED <<succ, policy, calls, logged>>

\* wrapper.getSuccessorAtRandom(), both nodes making the same draw
WrappedGetSuccessorAtRandom ==
    /\ \E draw \in NodeDraws(policy[Alone], succ[Alone]) :
         LET call == LoggerGetSuccessorAtRandom(succ, policy, Wrapper, draw)
             alone == NodeAtRandom(policy[Alone], succ[Alone], draw)
         IN  result' = [op |-> "getSuccessorAtRandom", raised |-> FALSE,
                        value |-> call.value,
                        alone |-> [raised |-> FALSE, value |-> alone.value]]
    /\ UNCHANGED <<succ, policy, calls, logged>>

\* the call that is kept to compare later calls with: the one kept before,
\* or this one when it is made on a node without successors
Keep(this) ==
    \E keep \in BOOLEAN :
      calls' = IF keep /\ succ[Core] = <<>>
               THEN [calls EXCEPT ![Wrapper].kept = this]
               ELSE calls

\* wrapper.logInfo(timeStamp, params)
LogInfo(timeStamp, params) ==
    LET call == CreateMesg(policy[Wrapper], succ[Core], timeStamp, params, "INFO")
        this == [op |-> "logInfo", timeStamp |-> timeStamp, params |-> params,
                 raised |-> call.raised, value |-> call.value]
    IN  /\ result' = this
        /\ Keep(this)
        /\ UNCHANGED <<succ, policy, logged>>

\* wrapper.logError(timeStamp, params)
LogError(timeStamp, params) ==
    LET call == CreateMesg(policy[Wrapper], succ[Core], timeStamp, params, "ERROR")
        this == [op |-> "logError", timeStamp |-> timeStamp, params |-> params,
                 raised |-> call.raised, value |-> call.value]
    IN  /\ result' = this
        /\ Keep(this)
        /\ UNCHANGED <<succ, policy, logged>>

NextLogger ==
    \/ \E successor \in LogSuccValues : WrappedAddSuccessor(successor)
    \/ WrappedDelLastSuccessor
    \/ WrappedGetNumSuccessors
    \/ \E index \in -(MaxLogSucc + 1) .. MaxLogSucc : WrappedGetSuccessorAt(index)
    \/ WrappedGetSuccessorAtRandom
    \/ \E timeStamp \in TimeStamps, params \in ParamChoices : LogInfo(timeStamp, params)
    \/ \E timeStamp \in TimeStamps, params \in ParamChoices : LogError(timeStamp, params)

SpecLogger == InitLogger /\ [][NextLogger]_vars

(***************************************************************************)
(* Properties of logger nodes, over SpecLogger.                            *)
(***************************************************************************)
Structural ==
    {"addSuccessor", "delLastSuccessor", "getNumSuccessors", "getSuccessorAt",
     "getSuccessorAtRandom"}
LogCalls == {"logInfo", "logError"}

\* the wrapper answers as the node alone does, and the list of the core node
\* is the list of the node alone
SameAsAlone ==
    /\ succ[Core] = succ[Alone]
    /\ result.op \in Structural =>
          /\ result.raised = result.alone.raised
          /\ result.value = result.alone.value

KeptCall == calls[Wrapper].kept
SameInputs ==
    /\ result.op \in LogCalls
    /\ KeptCall.op = result.op
    /\ KeptCall.timeStamp = result.timeStamp
    /\ KeptCall.params = result.params

LogLeavesNode ==
    result'.op \in LogCalls => (succ' = succ /\ policy' = policy /\ nodeId' = nodeId)

SignaturesKept ==
    /\ policy'[Wrapper].fixedInfoMesg = policy[Wrapper].fixedInfoMesg
    /\ policy'[Wrapper].fixedErrMesg = policy[Wrapper].fixedErrMesg

\* C28: logInfo and logError change nothing of the node, the two signatures
\* set by the constructor never change, and a call returns the string that
\* an earlier call with the same time stamp and parameters returned,
\* whatever was called in between.
C28_LogCallsDeterministic ==
    /\ [](SameInputs => (result.raised = KeptCall.raised /\ result.value = KeptCall.value))
    /\ [][LogLeavesNode]_vars
    /\ [][SignaturesKept]_vars

\* logError with parameters gave the string it gave before the node had
\* its two successors
C28_Witness ==
    /\ SameInputs
    /\ result.op = "logError"
    /\ result.params.given
    /\ ~policy[Wrapper].ignoreParams
    /\ Len(succ[Core]) = 2
    /\ result.value = KeptCall.value
    /\ Len(result.value) > 6

(***************************************************************************)
(* Growth of the inner layers, over SpecBuild.                             *)
(***************************************************************************)
GrowingInner == Connecting /\ ~build.toLeafLayer

\* C31: while an inner layer is grown, the number of successors drawn for a
\* node is 1, 2 or BRANCHING_DEGREE + d with |d| <= BRANCHING_DEGREE div 2,
\* and it is at most the number of slots of the candidate layer, which is
\* len(currentLayer) * (BRANCHING_DEGREE + deltaRange): a sample of that
\* many distinct slots exists.
C31_SuccessorCountWithinSlots ==
    GrowingInner =>
        /\ Len(build.toLayer) = SlotsAfter(build.cfg, build.fromLayer)
        /\ \A k \in HowManySuccessors(build.cfg) :
             /\ \/ k \in {1, 2}
                \/ \E d \in -DeltaRange(build.cfg) .. DeltaRange(build.cfg) :
                     k = build.cfg.branchingDegree + d
             /\ k <= Len(build.toLayer)
             /\ Samples(Len(build.toLayer), k) # {}

\* what does hold: the count is within the slots when BRANCHING_DEGREE is
\* at least 2, or the current layer has at least two nodes
SlotsSufficeFromDegreeTwo ==
    (GrowingInner /\ (build.cfg.branchingDegree >= 2 \/ Len(build.fromLayer) >= 2)) =>
        \A k \in HowManySuccessors(build.cfg) : k <= Len(build.toLayer)

(***************************************************************************)
(* Loops and reverse edges of DCGBuilder, over SpecSeries.                 *)
(***************************************************************************)
DcgBuilt == build.cls = "DCGBuilder" /\ build.pc \notin {"idle", "ctorRaised"}
DcgReturned == Returned /\ build.cls = "DCGBuilder"
AskedInner == ParseInt(build.kwargs["NUM_INNER_NODES"])
LayerNodes == UNION {Range(build.nodeLayers[l]) : l \in 1 .. NumLevels}

\* the loop nodes a node of a layer points to: the first nodes of the loops
\* that start at it
LoopHeads == {l \in LoopNodes : \E s \in LayerNodes : l \in Range(succ[s])}
StartOf(l) == CHOOSE s \in LayerNodes : l \in Range(succ[s])
Only(n) == succ[n][1]

\* C32: a DCGBuilder sets ceil(N / 5) of the N inner nodes asked for aside
\* as loop nodes and grows the tree with the rest; the graph it returns has
\* ceil(loop nodes / 3) loops, each of them three nodes made for it, chained
\* from a node of an inner layer and closed by an edge from the third back
\* to that node, and every loop node has exactly one successor.
C32_LoopsOfThree ==
    /\ DcgBuilt =>
         /\ LoopFraction * build.numLoopNodes >= AskedInner
         /\ LoopFraction * (build.numLoopNodes - 1) < AskedInner
         /\ build.cfg.numInnerNodes = AskedInner - build.numLoopNodes
    /\ DcgReturned =>
         /\ NodesPerLoop * Cardinality(LoopHeads) >= build.numLoopNodes
         /\ NodesPerLoop * (Cardinality(LoopHeads) - 1) < build.numLoopNodes
         /\ Cardinality(LoopNodes) = NodesPerLoop * Cardinality(LoopHeads)
         /\ LoopNodes \cap LayerNodes = {}
         /\ \A l \in LoopNodes : Len(succ[l]) = 1
         /\ \A h \in LoopHeads :
              /\ LayerOf(StartOf(h)) \in 2 .. NumLevels - 1
              /\ {Only(h), Only(Only(h))} \subseteq LoopNodes \ LoopHeads
              /\ Cardinality({h, Only(h), Only(Only(h))}) = NodesPerLoop
              /\ Only(Only(Only(h))) = StartOf(h)

\* a graph of four layers, of three inner nodes asked for one set aside,
\* with its one loop of three nodes
C32_Witness ==
    /\ DcgReturned
    /\ AskedInner = 3
    /\ build.numLoopNodes = 1
    /\ NumLevels = 4
    /\ Cardinality(LoopNodes) = 3
    /\ \E h \in LoopHeads : Only(Only(Only(h))) = StartOf(h)

\* the edges from a node of a layer to a node of a layer that is not
\* deeper, as pairs of the node and the position in its successor list
BackEdges ==
    UNION {{<<n, k>> : k \in {j \in 1 .. Len(succ[n]) :
                                /\ succ[n][j] \in LayerNodes
                                /\ LayerOf(succ[n][j]) <= LayerOf(n)}} :
           n \in LayerNodes}
ReverseAsked == build.cls = "DCGBuilder" /\ build.reverseEdges
BackEdgesAsSpecified ==
    /\ Cardinality(BackEdges) = NumLevels \div SkipFraction
    /\ \A e, f \in BackEdges : LayerOf(e[1]) = LayerOf(f[1]) => e = f
    /\ \A e \in BackEdges :
         /\ LayerOf(e[1]) \in 3 .. NumLevels - 1
         /\ LayerOf(succ[e[1]][e[2]]) <= LayerOf(e[1]) - 2

\* C33: with REVERSE_EDGES on, generateNewGraph of a DCGBuilder returns a
\* graph whenever the layers number three or more and never fails over the
\* choice of the source layers: a graph of more than three layers gets
\* numLayers div 3 back-edges, from distinct layers that are neither among
\* the first two nor the leaf layer, each to a node at least two layers
\* up; a graph of exactly three layers gets none.
C33_ReverseEdgesAlwaysReturn ==
    /\ ReverseAsked => build.raised # "ValueError"
    /\ (ReverseAsked /\ Returned) =>
         IF NumLevels > 3 THEN BackEdgesAsSpecified ELSE BackEdges = {}

\* what does hold: the call fails only on a graph of exactly three layers,
\* and a graph that is returned has the back-edges as specified
ReverseEdgesFromFourLayers ==
    /\ (ReverseAsked /\ build.raised = "ValueError") => NumLevels = 3
    /\ (ReverseAsked /\ Returned) => (NumLevels > 3 /\ BackEdgesAsSpecified)

(***************************************************************************)
(* Calls of generateNewGraph whose graphs are all kept, over SpecKeep.     *)
(***************************************************************************)
CurrentGraph == Cardinality(DOMAIN graph)
EarlierNodes == 1 .. build.heapBefore
GraphIdsDistinct == \A g, h \in DOMAIN graph : g # h => graph[g].id # graph[h].id
MadeOfNewNodes ==
    Generating => ReachableFrom(graph[CurrentGraph].roots) \cap EarlierNodes = {}
EarlierGraphsKept ==
    /\ \A g \in DOMAIN graph : g \in DOMAIN graph' /\ graph'[g] = graph[g]
    /\ \A n \in DOMAIN succ :
         n <= build'.heapBefore =>
            /\ n \in DOMAIN succ'
            /\ succ'[n] = succ[n]
            /\ nodeId'[n] = nodeId[n]

\* C34: every call of generateNewGraph makes a Graph object of its own,
\* whose identifier no graph of an earlier call has, whichever builder made
\* it, and which reaches only nodes created during the call; no step of a
\* call changes a graph made before, the identifier or the successors of
\* a node that existed when the call began.
C34_EachCallBuildsNewGraph ==
    /\ [](GraphIdsDistinct /\ MadeOfNewNodes)
    /\ [][EarlierGraphsKept]_vars

\* a second graph, with a loop, was returned while the first is kept
C34_Witness ==
    /\ Returned
    /\ CurrentGraph = 2
    /\ build.heapBefore >= 3
    /\ LoopNodes # {}
    /\ ReachableFrom(graph[1].roots) = EarlierNodes
    /\ graph[1].id # graph[2].id

(***************************************************************************)
(* The synthesizer between two requests, and its clock, over Spec.         *)
(***************************************************************************)
LastLine(g) == lines[g][Len(lines[g])]

\* a suspended sequence changes only by a request, and a request gives one
\* line or ends the sequence
OnlyByRequest(g) ==
    /\ (gens[g].pc = "yield" /\ gens'[g] # gens[g]) =>
          \/ gens'[g].pc = "done"
          \/ /\ gens'[g].pc = "yield"
             /\ Len(lines'[g]) = Len(lines[g]) + 1
    /\ lines'[g] # lines[g] =>
          /\ Len(lines'[g]) = Len(lines[g]) + 1
          /\ SubSeq(lines'[g], 1, Len(lines[g])) = lines[g]

\* from a line to the next one of the same run: one step of the clock, one
\* draw of a successor for the cursor of the graph of the earlier line
OneStepBetweenLines(g) ==
    (/\ gens[g].pc = "yield" /\ gens'[g].pc = "yield"
     /\ gens'[g].i = gens[g].i
     /\ lines'[g] # lines[g]) =>
       /\ gens'[g].wallClock = gens[g].wallClock + FixedTimeDelta
       /\ gens'[g].nextNodeOf[gens[g].graphIdx + 1]
             \in RandomSuccessors(Cursor(g, gens[g].graphIdx))
       /\ \A gi \in GraphIdxs(g) \ {gens[g].graphIdx} :
             gens'[g].nextNodeOf[gi + 1] = Cursor(g, gi)
       /\ LastLine(g).line.timeStamp = TimeStamp(gens[g].wallClock)
       /\ lines'[g][Len(lines'[g])].line.timeStamp = TimeStamp(gens'[g].wallClock)

\* C35: the sequence advances only when the consumer asks for the next
\* line, each request giving one line; between a line and the next line of
\* the same run the clock goes on by one step, the cursor of the graph of
\* the earlier line takes one step to a successor, and the cursor of every
\* other graph stays where it is.
C35_OneStepPerRequest == [][OnlyByRequest(GenA) /\ OneStepBetweenLines(GenA)]_vars

\* two lines of one run from two graphs, the cursor of the second graph
\* being where it was before the first graph's line
C35_Witness ==
    /\ gens[GenA].pc = "yield"
    /\ gens[GenA].numGraphs = 2
    /\ Len(lines[GenA]) = 3
    /\ lines[GenA][1].run = lines[GenA][3].run
    /\ lines[GenA][1].src = lines[GenA][2].src
    /\ lines[GenA][3].src # lines[GenA][1].src
    /\ Cursor(GenA, lines[GenA][1].src) # None

\* C39: the clock stamped on a line is RunGap * r + FixedTimeDelta * m, r
\* being the index of the run and m the number of lines yielded before it
\* in the sequence: the first line of the first run is stamped at clock 0,
\* and from the last line of a run to the first of the next the clock goes
\* on by RunGap + FixedTimeDelta.
C39_ClockOfLine ==
    /\ \A k \in 1 .. Len(lines[GenA]) :
          lines[GenA][k].line.timeStamp
             = TimeStamp(RunGap * lines[GenA][k].run + FixedTimeDelta * (k - 1))
    /\ gens[GenA].pc = "yield" =>
          gens[GenA].wallClock
             = RunGap * gens[GenA].i + FixedTimeDelta * (Len(lines[GenA]) - 1)

\* the second run began after two lines of the first: its first line is
\* stamped at 2.5 s + 2 * 0.05 s
C39_Witness ==
    /\ Len(lines[GenA]) = 3
    /\ lines[GenA][2].run = 0
    /\ lines[GenA][3].run = 1
    /\ lines[GenA][1].line.timeStamp = <<0, 0>>
    /\ lines[GenA][3].line.timeStamp = <<2, 600000>>

(***************************************************************************)
(* Termination of a build, over SpecBuild.                                 *)
(***************************************************************************)
AdmissibleConfig ==
    /\ build.cfg.numRoots >= 1
    /\ build.cfg.numLeaves >= 1
    /\ build.cfg.branchingDegree >= 1
    /\ build.cfg.numInnerNodes >= 0

\* a round of the growth of the inner layers made at least one node, and
\* the nodes still wanted are fewer than the builder was asked for
BudgetDecreases ==
    InnerLayerDone =>
        /\ build.made >= 1
        /\ build.bal - build.made < build.bal
        /\ build.bal <= build.cfg.numInnerNodes

\* C36: with NUM_ROOTS >= 1, NUM_LEAVES >= 1, BRANCHING_DEGREE >= 1 and
\* NUM_INNER_NODES >= 0 generateNewGraph does not end by an exception, and
\* every round of the growth of the inner layers makes at least one node,
\* so that the nodes still wanted become fewer with every round.
C36_BuildReturnsGraph ==
    AdmissibleConfig => (build.pc # "raised" /\ BudgetDecreases)

\* what does hold: the rounds make progress whatever the configuration,
\* and no build fails when BRANCHING_DEGREE is at least 2
BuildReturnsFromDegreeTwo ==
    /\ BudgetDecreases
    /\ (AdmissibleConfig /\ build.cfg.branchingDegree >= 2) => build.pc # "raised"

(***************************************************************************)
(* Where a traversal of a built graph can end, over SpecSeries.            *)
(***************************************************************************)
IsLeaf(n) == nodeId[n][1] = "leaf"

\* C37: in a graph that a builder of any of the three classes returned, a
\* node has no successor exactly if it is of the leaf layer, and no
\* successor is the sentinel: roots, nodes of inner layers and loop nodes
\* have at least one successor.  No skip edge, loop or reverse edge starts
\* at a leaf: a leaf has no successor at any time of a build.
C37_OnlyLeavesEnd ==
    /\ \A n \in BuiltNodes : IsLeaf(n) => succ[n] = <<>>
    /\ Returned =>
          /\ NumLevels >= 3
          /\ \A n \in BuiltNodes :
               /\ IsLeaf(n) <=> n \in Range(LeafLayer)
               /\ Len(succ[n]) = 0 <=> n \in Range(LeafLayer)
               /\ None \notin Range(succ[n])

\* a returned graph with loop nodes and a reverse edge, all of whose nodes
\* but the leaf have successors
C37_Witness ==
    /\ DcgReturned
    /\ LoopNodes # {}
    /\ BackEdges # {}
    /\ \E n \in BuiltNodes : Len(succ[n]) = 0
    /\ \E n \in LayerNodes \ Range(LeafLayer) : Len(succ[n]) >= 3

(***************************************************************************)
(* The synthesizer over a graph that a TreeBuilder or a DAGBuilder has     *)
(* returned: the graph is added once or twice, a sequence is asked for,    *)
(* and the consumer pulls until the sequence ends.  The consumer keeps     *)
(* pulling (WF); nothing is assumed of the draws of successors.            *)
(***************************************************************************)
\* a built graph has the roots, the leaves, and one inner layer or more;
\* every inner layer after the first is begun with an inner node wanted
MostLevels == MaxInner + 3

\* more lines than a sequence over built graphs has
WalkCap == MaxGraphs * MaxRuns * MostLevels + 1

\* the Graph object the builder returned
BuiltGraph == Cardinality(DOMAIN graph)

AddBuiltGraph ==
    /\ Returned
    /\ gens[GenA].pc = "none"
    /\ AddGraph(BuiltGraph)

\* MaxRuns runs over the graph, or fewer over several cursors on it
SynthesizeBuilt ==
    /\ Len(cfgList) > 0
    /\ \E n \in 1 .. MaxRuns :
         /\ Len(cfgList) * n <= MaxRuns
         /\ Synthesize(GenA, n)

PullBuilt ==
    \/ PullFirst(GenA, WalkCap, TRUE)
    \/ \E nextNode \in BuiltNodes \cup {None} : Resume(GenA, WalkCap, TRUE, nextNode)

\* the builders whose graphs are walked: one root, one leaf
WalkConfigs ==
    {cfg \in BuildConfigs : cfg.numRoots = 1 /\ cfg.numLeaves = 1}

InitWalk ==
    /\ InitBuild
    /\ build.cfg \in WalkConfigs

NextWalk ==
    \/ CreateRoots
    \/ ConnectNode
    \/ SampleRaises
    \/ NextInnerLayer
    \/ CreateLeaves
    \/ ConnectUncovered
    \/ ReturnTree
    \/ ChooseFromLevels
    \/ AddSkipEdge
    \/ ReturnDag
    \/ AddBuiltGraph
    \/ SynthesizeBuilt
    \/ PullBuilt

SpecWalk == InitWalk /\ [][NextWalk]_vars /\ WF_vars(PullBuilt)

\* graph gi has yielded all its lines of run r
WalkOver(g, r, gi) ==
    \/ gens[g].pc = "done"
    \/ gens[g].pc = "yield" /\ r < gens[g].i
    \/ gens[g].pc = "yield" /\ r = gens[g].i /\ gi \notin Range(gens[g].graphsAvailable)

\* the lines of a graph in a run are of nodes of ever deeper layers, from a
\* root on, and of every layer in turn if the builder is a TreeBuilder
DownTheLayers(tr) ==
    /\ Len(tr) <= NumLevels
    /\ \A k \in 1 .. Len(tr) :
         /\ k = 1 => tr[k].line.node \in Range(graph[BuiltGraph].roots)
         /\ k > 1 => LayerOf(tr[k].line.node) > LayerOf(tr[k - 1].line.node)
         /\ build.cls = "TreeBuilder" => LayerOf(tr[k].line.node) = k

WalksWithinLayers(g) ==
    /\ gens[g].pc # "raised"
    /\ Len(lines[g]) < WalkCap
    /\ gens[g].pc \in {"yield", "done"} =>
         \A r \in 0 .. gens[g].numRuns - 1 : \A gi \in GraphIdxs(g) :
            LET tr == Trace(g, r, gi)
            IN  /\ DownTheLayers(tr)
                /\ WalkOver(g, r, gi) =>
                     /\ Len(tr) >= 1
                     /\ Len(succ[tr[Len(tr)].line.node]) = 0
                     /\ build.cls = "TreeBuilder" => Len(tr) = NumLevels

\* C38: over graphs that TreeBuilder or DAGBuilder built, a sequence that
\* the consumer keeps pulling ends, whatever successors are drawn: in each
\* run each graph yields at most as many lines as the graph has layers
\* before its cursor becomes the sentinel, and exactly that many, one node
\* of each layer from a root to a leaf, if TreeBuilder built the graph.
C38_WalkEndsWithinLayers ==
    /\ [](WalksWithinLayers(GenA))
    /\ (gens[GenA].pc = "new") ~> (gens[GenA].pc = "done")

\* a sequence of two runs over a graph of four layers with a skip edge has
\* ended, the graph having yielded two lines in one run and four in the other
C38_Witness ==
    /\ gens[GenA].pc = "done"
    /\ DagReturned
    /\ NumLevels = 4
    /\ Len(Trace(GenA, 0, 0)) = 2
    /\ Len(Trace(GenA, 1, 0)) = 4

(***************************************************************************)
(* Graph.size() and dumpDotFile on a graph with a sentinel entry, over     *)
(* SpecGraph.                                                              *)
(***************************************************************************)
\* C40: on a graph in which a reachable node has the sentinel among its
\* successors, size() and dumpDotFile return normally; the sentinel is
\* neither counted nor followed: size() is the number of reachable nodes,
\* and the text has the edges between nodes and none to the sentinel.
C40_SentinelSkipped ==
    (/\ result.op \in {"size", "dumpDotFile"}
     /\ SentinelReachable
     /\ DistinctIds(GraphReach)) =>
        /\ ~result.raised
        /\ result.op = "size" => result.value = Cardinality(GraphReach)
        /\ result.op = "dumpDotFile" => DotTextListsEdgesOnce(result.text)

============================================================================
